---------------------------- MODULE Spec2Model ----------------------------
(***************************************************************************)
(* A model of github.com/ericchiang/css: the CSS selector tokenizer, the   *)
(* recursive-descent parser, the An+B micro-parser, the compiler and the   *)
(* matcher that runs a compiled selector over an html.Node tree.           *)
(*                                                                         *)
(* Conventions.  A Go string is a sequence of one-character strings; a     *)
(* pointer that may be nil is a sequence of length 0 (nil) or 1; a Go      *)
(* function returning (value, error) is an operator returning a record.    *)
(* html.Node trees are arenas: a sequence of nodes numbered in document    *)
(* order, each naming its parent (0 = no parent).                          *)
(***************************************************************************)
EXTENDS Integers, Sequences, FiniteSets, TLC

VARIABLES
    pc,         \* where the run of the program under study stands
    src,        \* the selector string handed to Parse or to newLexer
    doc,        \* SpecSelect: the html.Node tree handed to Select
    start,      \* SpecSelect: the node n of doc that Select is called with
    sels,       \* SpecSelect: Selector.s of the Selector that Parse returned
    idx,        \* SpecSelect: how many members of Selector.s the loop of Select has run
    selected,   \* SpecSelect: the local `selected` of Selector.Select
    parts,      \* SpecSelect: what sel.find(n) returned for each member so far
    nthA,       \* SpecNth: nth.a
    nthB,       \* SpecNth: nth.b
    nthVal,     \* SpecNth: the argument val of nth.matches
    nthRes,     \* SpecNth: what nth.matches returned (<<>> before the call)
    lx,         \* SpecLex: the lexer {s, last, pos}
    toks,       \* SpecLex: what the calls of l.next() returned so far
    ast,        \* SpecParse: what parser.parse returned for src
    result,     \* SpecParse: what Parse returned for src
    probe,      \* SpecParse: the one-element tree the Selector is tried on
    matched,    \* SpecParse: whether Select returned the probe element
    pq,         \* SpecQueue, SpecStream: the queue (parser.peekQueue in SpecStream)
    perr,       \* SpecStream: parser.err
    ret,        \* SpecQueue, SpecStream: the last call and what it returned
    pushes,     \* SpecQueue: every token pushed so far, in order
    popped      \* SpecQueue: the number of pop calls that returned

vars == <<pc, src, doc, start, sels, idx, selected, parts, nthA, nthB, nthVal,
          nthRes, lx, toks, ast, result, probe, matched, pq, perr, ret,
          pushes, popped>>

Nil == <<>>

\* Op with v for its argument: v is computed once, however often Op uses it.
Bind(v, Op(_)) == Op(v)

Some(v) == <<v>>

\* ------------------------------------------------------------------------
\* Tokens (the lexer's output, the parser's input)
\* ------------------------------------------------------------------------

tokenAtKeyword == "<at-keyword-token>"
tokenBracketClose == "<]-token>"
tokenBracketOpen == "<[-token>"
tokenCDC == "<CDC-token>"
tokenCDO == "<CDO-token>"
tokenColon == "<colon-token>"
tokenComma == "<comma-token>"
tokenCurlyClose == "<}-token>"
tokenCurlyOpen == "<{-token>"
tokenDelim == "<delim-token>"
tokenDimension == "<dimension-token>"
tokenEOF == "<eof-token>"
tokenFunction == "<function-token>"
tokenHash == "<hash-token>"
tokenIdent == "<ident-token>"
tokenNumber == "<number-token>"
tokenParenClose == "<)-token>"
tokenParenOpen == "<(-token>"
tokenPercent == "<percentage-token>"
tokenSemicolon == "<semicolon-token>"
tokenString == "<string-token>"
tokenURL == "<url-token>"
tokenWhitespace == "<whitespace-token>"

tokenFlagNone == "(no flag set)"
tokenFlagInteger == "type=integer"
tokenFlagID == "type=id"
tokenFlagNumber == "type=number"

\* What l.next() hands back instead of a token when it returns a *lexErr, and
\* when the call does not return at all (a runtime panic).
tokenLexErr == "lexErr"
tokenPanic == "panic"

\* Closes a token sequence whose last token l.next() returned with the lexer
\* exactly as it was before the call: every later call returns it again.
tokenRepeat == "repeat"

\* token{typ, raw, s, pos, flag, dim}
Token(typ, raw, s, pos, flag, dim) ==
    [typ |-> typ, raw |-> raw, s |-> s, pos |-> pos, flag |-> flag, dim |-> dim]

isDelim(t, s) == t.typ = tokenDelim /\ t.s = s

isIdent(t, s) == t.typ = tokenIdent /\ t.s = s

IsErrTok(t) == t.typ \in {tokenLexErr, tokenPanic}

\* ------------------------------------------------------------------------
\* Parser (src/parse.go, the second package clause, lines 649-1595)
\* ------------------------------------------------------------------------

\* The three shapes of a parser method's return: a value with the parser
\* position after it, "not this production" (ok = false, no error), an error.
Ok(v, i) == [err |-> Nil, ok |-> TRUE, val |-> Some(v), i |-> i]

NotFound(i) == [err |-> Nil, ok |-> FALSE, val |-> Nil, i |-> i]

Fail(e, i) == [err |-> Some(e), ok |-> FALSE, val |-> Nil, i |-> i]

\* p.errorf(t, msg): a *parseErr; Parse reports perr.t.pos as the position.
parseErr(t, msg) == [kind |-> "parseErr", msg |-> msg, pos |-> t.pos]

\* The error (or panic) the token source raised, kept in parser.err.
StreamErr(t) ==
    [kind |-> IF t.typ = tokenPanic THEN "panic" ELSE "lexErr",
     msg |-> t.s, pos |-> t.pos]

\* The k-th call (k >= 1) of p.l.next() on a source that yields ts and then
\* EOF for ever.  A source that failed keeps failing: parser.err is sticky.
tokens_next(ts, k) ==
    IF Len(ts) > 1 /\ ts[Len(ts)].typ = tokenRepeat
    THEN (IF k < Len(ts) THEN ts[k] ELSE ts[Len(ts) - 1])
    ELSE IF k <= Len(ts) THEN ts[k]
    ELSE IF Len(ts) > 0 /\ IsErrTok(ts[Len(ts)]) THEN ts[Len(ts)]
    ELSE Bind(IF Len(ts) > 0
              THEN ts[Len(ts)].pos + Len(ts[Len(ts)].raw)
              ELSE 0, LAMBDA lastPos :
            Token(tokenEOF, <<>>, <<>>, lastPos, tokenFlagNone, <<>>))

\* The parser's position i is the number of tokens p.next() has consumed.
peekN(ts, i, n) == tokens_next(ts, i + n + 1)

peek(ts, i) == peekN(ts, i, 0)

\* skipWhitespace as it would be if it skipped nothing.
skipWhitespaceNot(ts, i) == i

RECURSIVE skipWhitespace(_, _)
skipWhitespace(ts, i) ==
    Bind(peek(ts, i), LAMBDA t :
    IF IsErrTok(t) \/ t.typ # tokenWhitespace THEN i
    ELSE skipWhitespace(ts, i + 1))

HasPrefix(s, prefix) ==
    Len(prefix) <= Len(s) /\ SubSeq(s, 1, Len(prefix)) = prefix

TrimPrefix(s, prefix) ==
    IF HasPrefix(s, prefix) THEN SubSeq(s, Len(prefix) + 1, Len(s)) ELSE s

parseName(ts, i, allowStar) ==
    Bind(peek(ts, i), LAMBDA t :
    IF IsErrTok(t) THEN Fail(StreamErr(t), i)
    ELSE IF isDelim(t, <<"|">>) THEN
        Bind(peek(ts, i + 1), LAMBDA t2 :
        IF IsErrTok(t2) THEN Fail(StreamErr(t2), i)
        ELSE IF t2.typ # tokenIdent THEN Fail(parseErr(t2, "expected identifier"), i)
        ELSE Ok([hasPrefix |-> TRUE, prefix |-> <<>>, value |-> t2.s], i + 2))
    ELSE IF isDelim(t, <<"*">>) THEN
        Bind(peek(ts, i + 1), LAMBDA delim :
        IF IsErrTok(delim) THEN Fail(StreamErr(delim), i)
        ELSE IF ~isDelim(delim, <<"|">>) THEN
            IF allowStar
            THEN Ok([hasPrefix |-> FALSE, prefix |-> <<>>, value |-> <<"*">>], i + 1)
            ELSE Fail(parseErr(delim, "expected '|'"), i)
        ELSE
            Bind(peek(ts, i + 2), LAMBDA ident :
            IF IsErrTok(ident) THEN Fail(StreamErr(ident), i)
            ELSE IF ~(ident.typ = tokenIdent \/ (allowStar /\ isDelim(ident, <<"*">>)))
            THEN Fail(parseErr(ident, "expected identifier"), i)
            ELSE Ok([hasPrefix |-> TRUE, prefix |-> t.s, value |-> ident.s], i + 3)))
    ELSE IF t.typ # tokenIdent THEN Fail(parseErr(t, "expected identifier"), i)
    ELSE
        Bind(peek(ts, i + 1), LAMBDA delim :
        IF IsErrTok(delim) THEN Fail(StreamErr(delim), i)
        ELSE IF ~isDelim(delim, <<"|">>)
        THEN Ok([hasPrefix |-> FALSE, prefix |-> <<>>, value |-> t.s], i + 1)
        ELSE
            Bind(peekN(ts, i + 1, 1), LAMBDA ident :
            IF IsErrTok(ident) THEN Fail(StreamErr(ident), i)
            ELSE IF ~(ident.typ = tokenIdent \/ (allowStar /\ isDelim(ident, <<"*">>)))
            THEN Ok([hasPrefix |-> FALSE, prefix |-> <<>>, value |-> t.s], i + 1)
            ELSE Ok([hasPrefix |-> TRUE, prefix |-> t.s, value |-> ident.s], i + 3))))

wqName(ts, i) == parseName(ts, i, FALSE)

typeSelector(ts, i) ==
    Bind(peek(ts, i), LAMBDA t :
    IF IsErrTok(t) THEN Fail(StreamErr(t), i)
    ELSE IF ~(t.typ = tokenIdent \/ isDelim(t, <<"*">>) \/ isDelim(t, <<"|">>))
    THEN NotFound(i)
    ELSE
        Bind(parseName(ts, i, TRUE), LAMBDA name :
        IF name.err # Nil THEN Fail(name.err[1], i)
        ELSE Ok([pos |-> t.pos,
                 hasPrefix |-> name.val[1].hasPrefix,
                 prefix |-> name.val[1].prefix,
                 value |-> name.val[1].value], name.i)))

closingOf(typ) ==
    CASE typ = tokenBracketOpen -> tokenBracketClose
      [] typ = tokenCurlyOpen -> tokenCurlyClose
      [] typ = tokenParenOpen -> tokenParenClose

\* The token source has come to the token it returns for ever.
Repeating(ts, i) ==
    Len(ts) > 1 /\ ts[Len(ts)].typ = tokenRepeat /\ i + 1 >= Len(ts) - 1

\* The loop of parser.any: tokens collected so far, brackets still open.  On
\* a token that repeats for ever and that the loop only appends, the loop has
\* no exit: the outcome is an error value of kind "loop".
RECURSIVE anyLoop(_, _, _, _, _)
anyLoop(ts, i, until, tokens, wantClosing) ==
    Bind(peek(ts, i), LAMBDA t :
    IF IsErrTok(t) THEN Fail(StreamErr(t), i)
    ELSE IF Len(wantClosing) = 0 /\ t.typ = until THEN Ok(tokens, i)
    ELSE IF t.typ = tokenEOF
    THEN Fail(parseErr(t, "unexpected eof attempting to match"), i)
    ELSE IF /\ Repeating(ts, i)
            /\ t.typ \notin {tokenBracketClose, tokenCurlyClose, tokenParenClose}
    THEN Fail([kind |-> "loop", msg |-> <<>>, pos |-> t.pos], i)
    ELSE IF t.typ \in {tokenBracketOpen, tokenCurlyOpen, tokenParenOpen}
    THEN anyLoop(ts, i + 1, until, Append(tokens, t),
                 Append(wantClosing, closingOf(t.typ)))
    ELSE IF t.typ \in {tokenBracketClose, tokenCurlyClose, tokenParenClose}
    THEN IF Len(wantClosing) = 0 \/ wantClosing[Len(wantClosing)] # t.typ
         THEN Fail(parseErr(t, "unmatched"), i)
         ELSE anyLoop(ts, i + 1, until, Append(tokens, t),
                      SubSeq(wantClosing, 1, Len(wantClosing) - 1))
    ELSE anyLoop(ts, i + 1, until, Append(tokens, t), wantClosing))

any(ts, i, until) == anyLoop(ts, i, until, <<>>, <<>>)

pseudoClassSelector(ts, i) ==
    Bind(peek(ts, i), LAMBDA t :
    IF IsErrTok(t) THEN Fail(StreamErr(t), i)
    ELSE IF t.typ # tokenColon THEN Fail(parseErr(t, "expected ':'"), i)
    ELSE
        Bind(peek(ts, i + 1), LAMBDA t2 :
        IF IsErrTok(t2) THEN Fail(StreamErr(t2), i)
        ELSE IF t2.typ = tokenIdent
        THEN Ok([pos |-> t.pos, ident |-> t2.s, function |-> <<>>, args |-> <<>>],
                i + 2)
        ELSE IF t2.typ # tokenFunction
        THEN Fail(parseErr(t2, "expected identifier or function"), i)
        ELSE
            Bind(any(ts, i + 2, tokenParenClose), LAMBDA args :
            IF args.err # Nil THEN Fail(args.err[1], i)
            ELSE
                Bind(peek(ts, args.i), LAMBDA c :
                IF IsErrTok(c) THEN Fail(StreamErr(c), i)
                ELSE IF c.typ # tokenParenClose
                THEN Fail(parseErr(t2, "expected ')'"), i)
                ELSE Ok([pos |-> t.pos, ident |-> <<>>, function |-> t2.s,
                         args |-> args.val[1]], args.i + 1)))))

attributeSelector(ts, i) ==
    Bind(peek(ts, i), LAMBDA t :
    IF IsErrTok(t) THEN Fail(StreamErr(t), i)
    ELSE IF t.typ # tokenBracketOpen THEN Fail(parseErr(t, "expected '['"), i)
    ELSE
    Bind(wqName(ts, skipWhitespace(ts, i + 1)), LAMBDA name :
    IF name.err # Nil THEN Fail(name.err[1], i)
    ELSE
    Bind(skipWhitespace(ts, name.i), LAMBDA i2 :
    Bind(peek(ts, i2), LAMBDA t2 :
    Bind([pos |-> t.pos, wqName |-> name.val[1], matcher |-> <<>>,
          val |-> <<>>, modifier |-> FALSE], LAMBDA at :
    IF IsErrTok(t2) THEN Fail(StreamErr(t2), i)
    ELSE IF t2.typ = tokenBracketClose THEN Ok(at, i2 + 1)
    ELSE IF t2.typ # tokenDelim
            \/ t2.s \notin {<<"~">>, <<"|">>, <<"^">>, <<"$">>, <<"*">>, <<"=">>}
    THEN Fail(parseErr(t2, "expected '~', '|', '^', '$', '*' or '='"), i)
    ELSE
    Bind(peek(ts, i2 + 1), LAMBDA t3 :
    Bind(IF t2.s = <<"=">> THEN <<"=">> ELSE t2.s \o <<"=">>, LAMBDA matcher :
    Bind(IF t2.s = <<"=">> THEN i2 + 1 ELSE i2 + 2, LAMBDA i3 :
    IF t2.s # <<"=">> /\ IsErrTok(t3) THEN Fail(StreamErr(t3), i)
    ELSE IF t2.s # <<"=">> /\ ~isDelim(t3, <<"=">>)
    THEN Fail(parseErr(t3, "expected '='"), i)
    ELSE
    Bind(skipWhitespace(ts, i3), LAMBDA i4 :
    Bind(peek(ts, i4), LAMBDA strOrIdent :
    IF IsErrTok(strOrIdent) THEN Fail(StreamErr(strOrIdent), i)
    ELSE IF ~(strOrIdent.typ = tokenString \/ strOrIdent.typ = tokenIdent)
    THEN Fail(parseErr(strOrIdent, "expected identifier or string"), i)
    ELSE
    Bind(skipWhitespace(ts, i4 + 1), LAMBDA i5 :
    Bind(peek(ts, i5), LAMBDA t5 :
    IF IsErrTok(t5) THEN Fail(StreamErr(t5), i)
    ELSE IF t5.s = <<"i">> THEN
        Bind(skipWhitespace(ts, i5 + 1), LAMBDA i6 :
        Bind(peek(ts, i6), LAMBDA t6 :
        IF IsErrTok(t6) THEN Fail(StreamErr(t6), i)
        ELSE IF t6.typ # tokenBracketClose THEN Fail(parseErr(t6, "expected ']'"), i)
        ELSE Ok([at EXCEPT !.matcher = matcher, !.val = strOrIdent.s,
                           !.modifier = TRUE], i6 + 1)))
    ELSE IF t5.typ # tokenBracketClose THEN Fail(parseErr(t5, "expected ']'"), i)
    ELSE Ok([at EXCEPT !.matcher = matcher, !.val = strOrIdent.s], i5 + 1)))))))))))))

subclassSelector(ts, i) ==
    Bind(peek(ts, i), LAMBDA t :
    Bind([pos |-> t.pos, idSelector |-> <<>>, classSelector |-> <<>>,
          attributeSelector |-> Nil, pseudoClassSelector |-> Nil], LAMBDA ss :
    IF IsErrTok(t) THEN Fail(StreamErr(t), i)
    ELSE IF t.typ = tokenHash
    THEN Ok([ss EXCEPT !.idSelector = TrimPrefix(t.s, <<"#">>)], i + 1)
    ELSE IF isDelim(t, <<".">>) THEN
        Bind(peek(ts, i + 1), LAMBDA t2 :
        IF IsErrTok(t2) THEN Fail(StreamErr(t2), i)
        ELSE IF t2.typ # tokenIdent THEN Fail(parseErr(t2, "expected identifier"), i)
        ELSE Ok([ss EXCEPT !.classSelector = TrimPrefix(t2.s, <<".">>)], i + 2))
    ELSE IF t.typ = tokenBracketOpen THEN
        Bind(attributeSelector(ts, i), LAMBDA a :
        IF a.err # Nil THEN Fail(a.err[1], i)
        ELSE Ok([ss EXCEPT !.attributeSelector = a.val], a.i))
    ELSE IF t.typ # tokenColon THEN NotFound(i)
    ELSE
        Bind(peekN(ts, i, 1), LAMBDA pt :
        IF IsErrTok(pt) THEN Fail(StreamErr(pt), i)
        ELSE IF pt.typ = tokenColon THEN NotFound(i)
        ELSE
            Bind(pseudoClassSelector(ts, i), LAMBDA pcs :
            IF pcs.err # Nil THEN Fail(pcs.err[1], i)
            ELSE Ok([ss EXCEPT !.pseudoClassSelector = pcs.val], pcs.i)))))

\* The loop of parser.pseudoSelector over the trailing pseudo-classes.
RECURSIVE pseudoSelectorLoop(_, _, _)
pseudoSelectorLoop(ts, i, ps) ==
    Bind(skipWhitespace(ts, i), LAMBDA i1 :
    Bind(peek(ts, i1), LAMBDA t :
    IF IsErrTok(t) THEN Fail(StreamErr(t), i)
    ELSE IF t.typ # tokenColon THEN Ok(ps, i1)
    ELSE
        Bind(pseudoClassSelector(ts, i1), LAMBDA cs :
        IF cs.err # Nil THEN Fail(cs.err[1], i)
        ELSE pseudoSelectorLoop(ts, cs.i,
                 [ps EXCEPT !.classes = Append(ps.classes, cs.val[1])]))))

pseudoSelector(ts, i) ==
    Bind(peek(ts, i), LAMBDA t :
    IF IsErrTok(t) THEN Fail(StreamErr(t), i)
    ELSE IF t.typ # tokenColon THEN NotFound(i)
    ELSE
        Bind(peekN(ts, i, 1), LAMBDA t2 :
        IF IsErrTok(t2) THEN Fail(StreamErr(t2), i)
        ELSE IF t2.typ # tokenColon THEN NotFound(i)
        ELSE
            Bind(pseudoClassSelector(ts, i + 1), LAMBDA ele :
            IF ele.err # Nil THEN Fail(ele.err[1], i)
            ELSE pseudoSelectorLoop(ts, ele.i,
                     [element |-> ele.val[1], classes |-> <<>>]))))

\* The two loops of parser.compoundSelector.
RECURSIVE subclassLoop(_, _, _)
subclassLoop(ts, i, acc) ==
    Bind(subclassSelector(ts, i), LAMBDA sc :
    IF sc.err # Nil THEN Fail(sc.err[1], i)
    ELSE IF ~sc.ok THEN Ok(acc, i)
    ELSE subclassLoop(ts, sc.i, Append(acc, sc.val[1])))

RECURSIVE pseudoLoop(_, _, _)
pseudoLoop(ts, i, acc) ==
    Bind(pseudoSelector(ts, i), LAMBDA ps :
    IF ps.err # Nil THEN Fail(ps.err[1], i)
    ELSE IF ~ps.ok THEN Ok(acc, i)
    ELSE pseudoLoop(ts, ps.i, Append(acc, ps.val[1])))

compoundSelector(ts, i) ==
    Bind(peek(ts, i), LAMBDA t :
    IF IsErrTok(t) THEN Fail(StreamErr(t), i)
    ELSE
    Bind(typeSelector(ts, i), LAMBDA tsel :
    IF tsel.err # Nil THEN Fail(tsel.err[1], i)
    ELSE
    Bind(subclassLoop(ts, tsel.i, <<>>), LAMBDA scs :
    IF scs.err # Nil THEN Fail(scs.err[1], i)
    ELSE
    Bind(pseudoLoop(ts, scs.i, <<>>), LAMBDA pss :
    IF pss.err # Nil THEN Fail(pss.err[1], i)
    ELSE IF ~(tsel.ok \/ Len(scs.val[1]) > 0 \/ Len(pss.val[1]) > 0)
    THEN NotFound(pss.i)
    ELSE Ok([pos |-> t.pos, typeSelector |-> tsel.val,
             subClasses |-> scs.val[1], pseudoSelectors |-> pss.val[1]], pss.i)))))

expectedCompound == "expected identifier, '#', '*', '.', '|', '[', ':'"

\* The end of the loop with a combinator left without its compound selector
\* taken for the end of the chain.
chainEndLenient(combinator, t, chain, i, i2) == Ok(chain, i2)

\* The end of the loop of parser.complexSelector, when no compound selector
\* follows: an error after a combinator, the end of the chain otherwise.
chainEnd(combinator, t, chain, i, i2) ==
    IF combinator # <<>> THEN Fail(parseErr(t, expectedCompound), i)
    ELSE Ok(chain, i2)

\* The loop of parser.complexSelector.  The linked list sel -> next -> ... is
\* the sequence chain; `last` is its final element.
RECURSIVE complexSelectorLoop(_, _, _)
complexSelectorLoop(ts, i, chain) ==
    Bind(skipWhitespace(ts, i), LAMBDA i1 :
    Bind(peek(ts, i1), LAMBDA t :
    IF IsErrTok(t) THEN Fail(StreamErr(t), i)
    ELSE
    Bind(peekN(ts, i1, 1), LAMBDA pt :
    Bind(t.typ = tokenDelim /\ t.s \in {<<">">>, <<"+">>, <<"~">>}, LAMBDA single :
    Bind(isDelim(t, <<"|">>), LAMBDA bar :
    Bind(bar /\ ~IsErrTok(pt) /\ isDelim(pt, <<"|">>), LAMBDA double :
    Bind(IF single THEN t.s
         ELSE IF double THEN <<"|", "|">>
         ELSE <<>>, LAMBDA combinator :
    Bind(IF single THEN skipWhitespace(ts, i1 + 1)
         ELSE IF double THEN skipWhitespace(ts, i1 + 2)
         ELSE i1, LAMBDA i2 :
    Bind(IF single \/ double THEN peek(ts, i2) ELSE IF bar THEN pt ELSE t, LAMBDA t2 :
    Bind(IF combinator = <<>> THEN chain
         ELSE [chain EXCEPT ![Len(chain)].combinator = combinator], LAMBDA chain2 :
    IF bar /\ IsErrTok(pt) THEN Fail(StreamErr(pt), i)
    ELSE IF IsErrTok(t2) THEN Fail(StreamErr(t2), i)
    ELSE
    Bind(compoundSelector(ts, i2), LAMBDA s :
    IF s.err # Nil THEN Fail(s.err[1], i)
    ELSE IF ~s.ok THEN chainEnd(combinator, t2, chain2, i, i2)
    ELSE complexSelectorLoop(ts, s.i,
             Append(chain2, [pos |-> s.val[1].pos, sel |-> s.val[1],
                             combinator |-> <<>>])))))))))))))

complexSelector(ts, i) ==
    Bind(peek(ts, i), LAMBDA t :
    IF IsErrTok(t) THEN Fail(StreamErr(t), i)
    ELSE
    Bind(compoundSelector(ts, i), LAMBDA cs :
    IF cs.err # Nil THEN Fail(cs.err[1], i)
    ELSE IF ~cs.ok THEN Fail(parseErr(t, expectedCompound), i)
    ELSE complexSelectorLoop(ts, cs.i,
             <<[pos |-> t.pos, sel |-> cs.val[1], combinator |-> <<>>]>>)))

\* The loop of parser.parse.
RECURSIVE parseLoop(_, _, _)
parseLoop(ts, i, acc) ==
    Bind(complexSelector(ts, i), LAMBDA cs :
    IF cs.err # Nil THEN Fail(cs.err[1], i)
    ELSE
    Bind(skipWhitespace(ts, cs.i), LAMBDA i1 :
    Bind(peek(ts, i1), LAMBDA t :
    IF IsErrTok(t) THEN Fail(StreamErr(t), i)
    ELSE IF t.typ = tokenEOF THEN Ok(Append(acc, cs.val[1]), i1 + 1)
    ELSE IF t.typ # tokenComma THEN Fail(parseErr(t, "expected ',' or EOF"), i)
    ELSE parseLoop(ts, skipWhitespace(ts, i1 + 1), Append(acc, cs.val[1])))))

parse(ts) == parseLoop(ts, skipWhitespace(ts, 0), <<>>)

\* ------------------------------------------------------------------------
\* An+B (src/parse.go, lines 1356-1595)
\* ------------------------------------------------------------------------

\* The width of the machine integers of the model; int64 in the source.
IntBits == 5

MaxInt == 2 ^ (IntBits - 1) - 1

MinInt == 0 - 2 ^ (IntBits - 1)

\* Two's-complement wrap-around of a mathematical integer to IntBits bits.
Wrap(x) == ((x - MinInt) % (2 ^ IntBits)) + MinInt

Digits == <<"0", "1", "2", "3", "4", "5", "6", "7", "8", "9">>

isDigit(r) == \E k \in 1..10 : Digits[k] = r

DigitVal(r) == (CHOOSE k \in 1..10 : Digits[k] = r) - 1

\* The magnitude of a digit string, saturated above the integer range so
\* that it stays a small number.
RECURSIVE Magnitude(_, _)
Magnitude(s, acc) ==
    IF s = <<>> THEN acc
    ELSE Bind(acc * 10 + DigitVal(s[1]), LAMBDA v :
         Magnitude(Tail(s), IF v > MaxInt + 1 THEN MaxInt + 2 ELSE v))

\* strconv.ParseInt(s, 10, IntBits): an optional sign, then one or more
\* digits and nothing else; a value out of range is an error.
parseInt(s) ==
    Bind(s # <<>> /\ s[1] \in {"+", "-"}, LAMBDA signed :
    Bind(s # <<>> /\ s[1] = "-", LAMBDA neg :
    Bind(IF signed THEN Tail(s) ELSE s, LAMBDA ds :
    Bind(Magnitude(ds, 0), LAMBDA m :
    IF ds = <<>> \/ \E k \in 1..Len(ds) : ~isDigit(ds[k])
    THEN [err |-> TRUE, n |-> 0]
    ELSE IF neg THEN [err |-> m > MaxInt + 1, n |-> 0 - m]
    ELSE [err |-> m > MaxInt, n |-> m]))))

isNDimension(t) ==
    t.typ = tokenDimension /\ t.flag = tokenFlagInteger /\ t.dim = <<"n">>

isNDashDimension(t) == t.typ = tokenDimension /\ t.dim = <<"n", "-">>

isPrefixWithDigits(s, prefix) ==
    /\ HasPrefix(s, prefix)
    /\ Len(s) # Len(prefix)
    /\ \A k \in (Len(prefix) + 1)..Len(s) : isDigit(s[k])

isNDashDigitDimension(t) ==
    t.typ = tokenDimension /\ isPrefixWithDigits(t.dim, <<"n", "-">>)

isNDashDigitIdent(t) ==
    t.typ = tokenIdent /\ isPrefixWithDigits(t.s, <<"n", "-">>)

isDashNDashDigitIdent(t) ==
    t.typ = tokenIdent /\ isPrefixWithDigits(t.s, <<"-", "n", "-">>)

isInteger(t) == t.typ = tokenNumber /\ t.flag = tokenFlagInteger

isSignedInteger(t) ==
    isInteger(t) /\ (HasPrefix(t.s, <<"+">>) \/ HasPrefix(t.s, <<"-">>))

isSignlessInteger(t) == isInteger(t) /\ t.s # <<>> /\ isDigit(t.s[1])

intErr(t) == parseErr(t, "parsing value as integer")

b(ts, i) ==
    Bind(skipWhitespace(ts, i), LAMBDA i1 :
    Bind(peek(ts, i1), LAMBDA t :
    IF IsErrTok(t) THEN Fail(StreamErr(t), i)
    ELSE IF t.typ = tokenEOF THEN Ok(0, i1 + 1)
    ELSE IF isSignedInteger(t) THEN
        IF parseInt(t.s).err THEN Fail(intErr(t), i)
        ELSE Ok(parseInt(t.s).n, i1 + 1)
    ELSE IF ~(isDelim(t, <<"+">>) \/ isDelim(t, <<"-">>))
    THEN Fail(parseErr(t, "expected one of the following: <signed-intger>, '+', '-'"), i)
    ELSE
    Bind(isDelim(t, <<"-">>), LAMBDA isNeg :
    Bind(skipWhitespace(ts, i1 + 1), LAMBDA i2 :
    Bind(peek(ts, i2), LAMBDA t2 :
    IF IsErrTok(t2) THEN Fail(StreamErr(t2), i)
    ELSE IF ~isSignlessInteger(t2) THEN Fail(parseErr(t2, "expected <signless-integer>"), i)
    ELSE IF parseInt(t2.s).err THEN Fail(intErr(t2), i)
    ELSE Ok(IF isNeg THEN Wrap(0 - parseInt(t2.s).n) ELSE parseInt(t2.s).n, i2 + 1))))))

\* `a` followed by what p.b() parses.
nthWithB(ts, i, a) ==
    Bind(b(ts, i), LAMBDA r :
    IF r.err # Nil THEN Fail(r.err[1], i)
    ELSE Ok([a |-> a, b |-> r.val[1]], r.i))

\* `a` followed by whitespace and a <signless-integer> that is subtracted.
nthMinusSignless(ts, i, a) ==
    Bind(skipWhitespace(ts, i), LAMBDA i1 :
    Bind(peek(ts, i1), LAMBDA t :
    IF IsErrTok(t) THEN Fail(StreamErr(t), i)
    ELSE IF ~isSignlessInteger(t) THEN Fail(parseErr(t, "expected unsigned integer"), i)
    ELSE IF parseInt(t.s).err THEN Fail(intErr(t), i)
    ELSE Ok([a |-> a, b |-> Wrap(0 - parseInt(t.s).n)], i1 + 1)))

aNPlusB(ts, i) ==
    Bind(skipWhitespace(ts, i), LAMBDA i1 :
    Bind(peek(ts, i1), LAMBDA t :
    Bind(i1 + 1, LAMBDA j :
    IF IsErrTok(t) THEN Fail(StreamErr(t), i)
    ELSE IF isIdent(t, <<"e", "v", "e", "n">>) THEN Ok([a |-> 2, b |-> 0], j)
    ELSE IF isIdent(t, <<"o", "d", "d">>) THEN Ok([a |-> 2, b |-> 1], j)
    ELSE IF isInteger(t) THEN
        IF parseInt(t.s).err THEN Fail(intErr(t), i)
        ELSE Ok([a |-> 0, b |-> parseInt(t.s).n], j)
    ELSE IF isNDimension(t) THEN
        IF parseInt(t.s).err THEN Fail(intErr(t), i)
        ELSE nthWithB(ts, j, parseInt(t.s).n)
    ELSE IF isNDashDigitDimension(t) THEN
        IF parseInt(t.s).err THEN Fail(intErr(t), i)
        ELSE IF parseInt(TrimPrefix(t.dim, <<"n">>)).err
        THEN Fail(parseErr(t, "parsing dimension as integer"), i)
        ELSE Ok([a |-> parseInt(t.s).n,
                 b |-> parseInt(TrimPrefix(t.dim, <<"n">>)).n], j)
    ELSE IF isDashNDashDigitIdent(t) THEN
        IF parseInt(TrimPrefix(t.s, <<"-", "n">>)).err
        THEN Fail(parseErr(t, "parsing b as integer"), i)
        ELSE Ok([a |-> 0 - 1, b |-> parseInt(TrimPrefix(t.s, <<"-", "n">>)).n], j)
    ELSE IF isNDashDimension(t) THEN
        IF parseInt(t.s).err THEN Fail(intErr(t), i)
        ELSE nthMinusSignless(ts, j, parseInt(t.s).n)
    ELSE IF isIdent(t, <<"-", "n", "-">>) THEN nthMinusSignless(ts, j, 0 - 1)
    ELSE IF isIdent(t, <<"-", "n">>) THEN nthWithB(ts, j, 0 - 1)
    ELSE
    Bind(isDelim(t, <<"+">>), LAMBDA plus :
    Bind(IF plus THEN skipWhitespace(ts, j) ELSE i1, LAMBDA i2 :
    Bind(peek(ts, i2), LAMBDA t2 :
    IF IsErrTok(t2) THEN Fail(StreamErr(t2), i)
    ELSE IF isIdent(t2, <<"n">>) THEN nthWithB(ts, i2 + 1, 1)
    ELSE IF isIdent(t2, <<"n", "-">>) THEN nthMinusSignless(ts, i2 + 1, 1)
    ELSE Fail(parseErr(t2, "expected 'even', 'odd', or integer type"), i)))))))

expectWhitespaceOrEOF(ts, i) ==
    Bind(skipWhitespace(ts, i), LAMBDA i1 :
    Bind(peek(ts, i1), LAMBDA t :
    IF IsErrTok(t) THEN Some(StreamErr(t))
    ELSE IF t.typ # tokenEOF THEN Some(parseErr(t, "expected no more tokens"))
    ELSE Nil))

\* ------------------------------------------------------------------------
\* Compiler (src/css.go)
\* ------------------------------------------------------------------------

\* The tag names atom.Lookup knows, as far as the model's inputs go; an atom
\* is represented by its name and the zero atom by the empty name.
Atoms == {<<"a">>, <<"p">>, <<"s", "v", "g">>}

Lookup(name) == IF name \in Atoms THEN name ELSE <<>>

\* A compiler method's return: the compiler after the call and the pointer
\* (Nil or Some) the method returned.
R(c, val) == [c |-> c, val |-> val]

\* The threshold Parse gives its compiler: compiler{maxErrs: 1}
maxErrs == 1

\* compiler{maxErrs: n}
newCompiler(n) == [maxErrs |-> n, errs |-> <<>>]

\* compiler.err with the recorded errors forgotten.
compiler_errForgotten(c) == Nil

compiler_err(c) == IF Len(c.errs) = 0 THEN Nil ELSE Some(c.errs[1])

errorf(c, pos, msg) ==
    [c |-> [c EXCEPT !.errs = Append(@, [pos |-> pos, msg |-> msg])],
     stop |-> Len(c.errs) + 1 >= c.maxErrs]

\* newNamespaceMatcher without the case of the empty prefix.
newNamespaceMatcherNoEmptyPrefix(hasPrefix, prefix) ==
    IF ~hasPrefix THEN [noNamespace |-> FALSE, namespace |-> <<>>]
    ELSE IF prefix = <<"*">> THEN [noNamespace |-> FALSE, namespace |-> <<>>]
    ELSE [noNamespace |-> FALSE, namespace |-> prefix]

newNamespaceMatcher(hasPrefix, prefix) ==
    IF ~hasPrefix THEN [noNamespace |-> FALSE, namespace |-> <<>>]
    ELSE IF prefix = <<>> THEN [noNamespace |-> TRUE, namespace |-> <<>>]
    ELSE IF prefix = <<"*">> THEN [noNamespace |-> FALSE, namespace |-> <<>>]
    ELSE [noNamespace |-> FALSE, namespace |-> prefix]

\* compiler.typeSelector without the error for a name atom.Lookup does not
\* know.
compiler_typeSelectorAnyName(c, s) ==
    R(c, Some([allAtoms |-> s.value = <<"*">>,
               atom |-> IF s.value = <<"*">> THEN <<>> ELSE Lookup(s.value),
               ns |-> newNamespaceMatcher(s.hasPrefix, s.prefix)]))

compiler_typeSelector(c, s) ==
    Bind(newNamespaceMatcher(s.hasPrefix, s.prefix), LAMBDA ns :
    Bind(Lookup(s.value), LAMBDA a :
    Bind(errorf(c, s.pos, "unrecognized node name"), LAMBDA e :
    IF s.value = <<"*">>
    THEN R(c, Some([allAtoms |-> TRUE, atom |-> <<>>, ns |-> ns]))
    ELSE IF a = <<>> /\ e.stop THEN R(e.c, Nil)
    ELSE R(IF a = <<>> THEN e.c ELSE c,
           Some([allAtoms |-> FALSE, atom |-> a, ns |-> ns])))))

UpperCase == <<"A", "B", "C", "D", "E", "F", "G", "H", "I", "J", "K", "L", "M",
               "N", "O", "P", "Q", "R", "S", "T", "U", "V", "W", "X", "Y", "Z">>

LowerCase == <<"a", "b", "c", "d", "e", "f", "g", "h", "i", "j", "k", "l", "m",
               "n", "o", "p", "q", "r", "s", "t", "u", "v", "w", "x", "y", "z">>

\* strings.ToLower
ToLower(s) ==
    [k \in 1..Len(s) |->
        IF \E u \in 1..26 : UpperCase[u] = s[k]
        THEN LowerCase[CHOOSE u \in 1..26 : UpperCase[u] = s[k]]
        ELSE s[k]]

compiler_attributeSelector(c, s) ==
    Bind([ns |-> newNamespaceMatcher(s.wqName.hasPrefix, s.wqName.prefix),
          matcher |-> s.matcher,
          key |-> IF s.modifier THEN ToLower(s.wqName.value) ELSE s.wqName.value,
          val |-> IF s.modifier THEN ToLower(s.val) ELSE s.val,
          modifier |-> s.modifier], LAMBDA m :
    IF s.matcher \in {<<"=">>, <<"~", "=">>, <<"|", "=">>, <<"^", "=">>,
                      <<"$", "=">>, <<"*", "=">>, <<>>}
    THEN R(c, Some(m))
    ELSE R(errorf(c, s.pos, "unsupported attribute matcher").c, Nil))

\* compileNth without the check that nothing follows the coefficients.
compileNthAnyTrailer(c, s) ==
    Bind(aNPlusB(s.args, 0), LAMBDA a :
    IF a.err # Nil
    THEN R(errorf(c, s.pos, "failed to parse <an+b> expression").c, Nil)
    ELSE R(c, a.val))

compileNth(c, s) ==
    Bind(aNPlusB(s.args, 0), LAMBDA a :
    Bind(R(errorf(c, s.pos, "failed to parse <an+b> expression").c, Nil), LAMBDA failed :
    IF a.err # Nil THEN failed
    ELSE IF expectWhitespaceOrEOF(s.args, a.i) # Nil THEN failed
    ELSE R(c, a.val)))

\* nthChild, nthOfType, nthLastChild and nthLastOfType: the closure returned
\* is the record of its name and the nth it captured.
nthClosure(c, s, fn) ==
    Bind(compileNth(c, s), LAMBDA n :
    IF n.val = Nil THEN R(n.c, Nil)
    ELSE R(n.c, Some([fn |-> fn, nth |-> n.val[1]])))

\* A pseudo-class predicate that takes no argument.
plainMatcher(fn) == [fn |-> fn, nth |-> [a |-> 0, b |-> 0]]

compiler_pseudoClassSelector(c, s) ==
    Bind(R(errorf(c, s.pos, "unsupported pseudo-class selector").c, Nil), LAMBDA unsupported :
    IF s.ident = <<"e", "m", "p", "t", "y">>
    THEN R(c, Some(plainMatcher("emptyMatcher")))
    ELSE IF s.ident = <<"f", "i", "r", "s", "t", "-", "c", "h", "i", "l", "d">>
    THEN R(c, Some(plainMatcher("firstChildMatcher")))
    ELSE IF s.ident = <<"f", "i", "r", "s", "t", "-", "o", "f", "-", "t", "y", "p", "e">>
    THEN R(c, Some(plainMatcher("firstOfTypeMatcher")))
    ELSE IF s.ident = <<"l", "a", "s", "t", "-", "c", "h", "i", "l", "d">>
    THEN R(c, Some(plainMatcher("lastChildMatcher")))
    ELSE IF s.ident = <<"l", "a", "s", "t", "-", "o", "f", "-", "t", "y", "p", "e">>
    THEN R(c, Some(plainMatcher("lastOfTypeMatcher")))
    ELSE IF s.ident = <<"o", "n", "l", "y", "-", "c", "h", "i", "l", "d">>
    THEN R(c, Some(plainMatcher("onlyChildMatcher")))
    ELSE IF s.ident = <<"o", "n", "l", "y", "-", "o", "f", "-", "t", "y", "p", "e">>
    THEN R(c, Some(plainMatcher("onlyOfTypeMatcher")))
    ELSE IF s.ident = <<"r", "o", "o", "t">>
    THEN R(c, Some(plainMatcher("rootMatcher")))
    ELSE IF s.ident # <<>> THEN unsupported
    ELSE IF s.function = <<"n", "t", "h", "-", "c", "h", "i", "l", "d", "(">>
    THEN nthClosure(c, s, "nthChild")
    ELSE IF s.function = <<"n", "t", "h", "-", "l", "a", "s", "t", "-",
                           "c", "h", "i", "l", "d", "(">>
    THEN nthClosure(c, s, "nthLastChild")
    ELSE IF s.function = <<"n", "t", "h", "-", "l", "a", "s", "t", "-",
                           "o", "f", "-", "t", "y", "p", "e", "(">>
    THEN nthClosure(c, s, "nthLastOfType")
    ELSE IF s.function = <<"n", "t", "h", "-", "o", "f", "-", "t", "y", "p", "e", "(">>
    THEN nthClosure(c, s, "nthOfType")
    ELSE unsupported)

compiler_subclassSelector(c, s) ==
    Bind(IF s.attributeSelector # Nil
         THEN compiler_attributeSelector(c, s.attributeSelector[1])
         ELSE R(c, Nil), LAMBDA a :
    Bind(IF s.pseudoClassSelector # Nil
         THEN compiler_pseudoClassSelector(a.c, s.pseudoClassSelector[1])
         ELSE R(a.c, Nil), LAMBDA p :
    R(p.c, Some([idSelector |-> s.idSelector, classSelector |-> s.classSelector,
                 attributeSelector |-> a.val, pseudoSelector |-> p.val]))))

\* The loop of compiler.compoundSelector over s.subClasses.
RECURSIVE compileSubClasses(_, _, _)
compileSubClasses(c, subClasses, scm) ==
    IF subClasses = <<>> THEN R(c, scm)
    ELSE Bind(compiler_subclassSelector(c, Head(subClasses)), LAMBDA r :
         compileSubClasses(r.c, Tail(subClasses),
                           IF r.val # Nil THEN Append(scm, r.val[1]) ELSE scm))

\* compiler.compoundSelector without the check of s.pseudoSelectors.
compiler_compoundSelectorNoPseudoCheck(c, s) ==
    Bind(IF s.typeSelector # Nil
         THEN compiler_typeSelector(c, s.typeSelector[1])
         ELSE R(c, Nil), LAMBDA t :
    Bind(compileSubClasses(t.c, s.subClasses, <<>>), LAMBDA sc :
    R(sc.c, Some([m |-> t.val, scm |-> sc.val]))))

compiler_compoundSelector(c, s) ==
    Bind(IF s.typeSelector # Nil
         THEN compiler_typeSelector(c, s.typeSelector[1])
         ELSE R(c, Nil), LAMBDA t :
    Bind(compileSubClasses(t.c, s.subClasses, <<>>), LAMBDA sc :
    Bind([m |-> t.val, scm |-> sc.val], LAMBDA m :
    Bind(errorf(sc.c, s.pos, "pseudo element selectors not supported"), LAMBDA e :
    IF Len(s.pseudoSelectors) # 0
    THEN IF e.stop THEN R(e.c, Nil) ELSE R(e.c, Some(m))
    ELSE R(sc.c, Some(m))))))

\* The loop of compiler.compile: curr walks the chain s, k is its index.
RECURSIVE compileLoop(_, _, _, _)
compileLoop(c, s, k, m) ==
    IF k >= Len(s) THEN R(c, Some(m))
    ELSE
    Bind(compiler_compoundSelector(c, s[k + 1].sel), LAMBDA sel :
    Bind(s[k].combinator, LAMBDA comb :
    Bind(IF comb = <<>> THEN "descendantCombinator"
         ELSE IF comb = <<">">> THEN "childCombinator"
         ELSE IF comb = <<"+">> THEN "adjacentCombinator"
         ELSE IF comb = <<"~">> THEN "siblingCombinator"
         ELSE "unexpected", LAMBDA kind :
    IF kind = "unexpected"
    THEN compileLoop(errorf(sel.c, s[k + 1].pos, "unexpected combinator").c,
                     s, k + 1, m)
    ELSE compileLoop(sel.c, s, k + 1,
             [m EXCEPT !.combinators = Append(@, [kind |-> kind, m |-> sel.val])]))))

compile(c, s) ==
    Bind(compiler_compoundSelector(c, s[1].sel), LAMBDA first :
    compileLoop(first.c, s, 1, [m |-> first.val, combinators |-> <<>>]))

\* The loop of Parse over the parsed list.
RECURSIVE compileList(_, _, _)
compileList(c, list, sel) ==
    IF list = <<>> THEN R(c, sel)
    ELSE Bind(compile(c, Head(list)), LAMBDA m :
         compileList(m.c, Tail(list),
                     IF m.val = Nil THEN sel ELSE Append(sel, m.val[1])))

\* What Parse does with what p.parse() returned: (*Selector, error), a panic
\* that unwinds through it, or a loop it never leaves.  sel is the Selector's
\* field s; errs is compiler.errs when Parse returns.
ParseList(list) ==
    Bind(compileList(newCompiler(maxErrs), list.val[1], <<>>), LAMBDA c :
    IF list.err # Nil
    THEN [sel |-> Nil,
          err |-> IF list.err[1].kind \in {"panic", "loop"} THEN Nil
                  ELSE Some([pos |-> list.err[1].pos, msg |-> list.err[1].msg]),
          panic |-> list.err[1].kind = "panic",
          loops |-> list.err[1].kind = "loop",
          errs |-> <<>>]
    ELSE IF compiler_err(c.c) # Nil
    THEN [sel |-> Nil, err |-> compiler_err(c.c), panic |-> FALSE,
          loops |-> FALSE, errs |-> c.c.errs]
    ELSE [sel |-> Some(c.val), err |-> Nil, panic |-> FALSE,
          loops |-> FALSE, errs |-> c.c.errs])

ParseTokens(ts) == ParseList(parse(ts))

\* ------------------------------------------------------------------------
\* html.Node trees
\* ------------------------------------------------------------------------

ElementNode == "ElementNode"
TextNode == "TextNode"
DocumentNode == "DocumentNode"

\* html.Node{Type, DataAtom, Namespace, Attr, Parent}; tree[n].parent = 0 is
\* a nil Parent.  Siblings are ordered by their index.
Node(typ, atom, ns, attr, parent) ==
    [typ |-> typ, atom |-> atom, ns |-> ns, attr |-> attr, parent |-> parent]

Children(tree, n) == {k \in 1..Len(tree) : tree[k].parent = n}

Min(S) == CHOOSE x \in S : \A y \in S : x <= y

Max(S) == CHOOSE x \in S : \A y \in S : y <= x

\* 0 stands for a nil *html.Node.
FirstChild(tree, n) ==
    IF Children(tree, n) = {} THEN 0 ELSE Min(Children(tree, n))

NextSibling(tree, n) ==
    Bind({k \in 1..Len(tree) :
             tree[n].parent # 0 /\ tree[k].parent = tree[n].parent /\ k > n}, LAMBDA later :
       IF later = {} THEN 0 ELSE Min(later))

PrevSibling(tree, n) ==
    Bind({k \in 1..Len(tree) :
             tree[n].parent # 0 /\ tree[k].parent = tree[n].parent /\ k < n}, LAMBDA earlier :
       IF earlier = {} THEN 0 ELSE Max(earlier))

\* The nodes a loop `for s := n.NextSibling; s != nil; s = s.NextSibling`
\* visits, in the order it visits them.
RECURSIVE NextSiblings(_, _)
NextSiblings(tree, n) ==
    IF NextSibling(tree, n) = 0 THEN <<>>
    ELSE <<NextSibling(tree, n)>> \o NextSiblings(tree, NextSibling(tree, n))

\* The same for `for s := n.PrevSibling; s != nil; s = s.PrevSibling`.
RECURSIVE PrevSiblings(_, _)
PrevSiblings(tree, n) ==
    IF PrevSibling(tree, n) = 0 THEN <<>>
    ELSE <<PrevSibling(tree, n)>> \o PrevSiblings(tree, PrevSibling(tree, n))

\* `for c := n.FirstChild; c != nil; c = c.NextSibling`
ChildList(tree, n) ==
    IF FirstChild(tree, n) = 0 THEN <<>>
    ELSE <<FirstChild(tree, n)>> \o NextSiblings(tree, FirstChild(tree, n))

IsElement(tree, n) == tree[n].typ = ElementNode

ElementsOf(tree, s) == SelectSeq(s, LAMBDA k : IsElement(tree, k))

\* ------------------------------------------------------------------------
\* Matchers (src/css.go)
\* ------------------------------------------------------------------------

namespaceMatcher_match(n, ns) ==
    IF n.noNamespace THEN ns = <<>>
    ELSE IF n.namespace = <<>> THEN TRUE
    ELSE n.namespace = ns

typeSelectorMatcher_match(t, tree, n) ==
    IF ~(t.allAtoms \/ t.atom = tree[n].atom) THEN FALSE
    ELSE namespaceMatcher_match(t.ns, tree[n].ns)

Abs(x) == IF x < 0 THEN 0 - x ELSE x

\* Go's x / y on IntBits-wide integers: truncated towards zero, and the most
\* negative value divided by -1 wraps around to itself.
GoQuo(x, y) ==
    Bind(Abs(x) \div Abs(y), LAMBDA q :
    Wrap(IF (x < 0) = (y < 0) THEN q ELSE 0 - q))

\* Go's x % y: the remainder has the sign of x.
GoRem(x, y) ==
    Bind(Abs(x) % Abs(y), LAMBDA r :
    IF x < 0 THEN 0 - r ELSE r)

nth_matches(nth, val) ==
    IF nth.a = 0 THEN val = nth.b
    ELSE /\ GoRem(Wrap(val - nth.b), nth.a) = 0
         /\ GoQuo(Wrap(val - nth.b), nth.a) >= 0

\* emptyMatcher as it would be if every child counted, not only elements.
emptyMatcherNoChildren(tree, n) == ChildList(tree, n) = <<>>

emptyMatcher(tree, n) == ElementsOf(tree, ChildList(tree, n)) = <<>>

firstChildMatcher(tree, n) == ElementsOf(tree, PrevSiblings(tree, n)) = <<>>

firstOfTypeMatcher(tree, n) ==
    \A k \in 1..Len(PrevSiblings(tree, n)) :
        Bind(PrevSiblings(tree, n)[k], LAMBDA s :
        ~(IsElement(tree, s) /\ tree[s].atom = tree[n].atom))

lastChildMatcher(tree, n) == ElementsOf(tree, NextSiblings(tree, n)) = <<>>

lastOfTypeMatcher(tree, n) ==
    \A k \in 1..Len(NextSiblings(tree, n)) :
        Bind(NextSiblings(tree, n)[k], LAMBDA s :
        ~(IsElement(tree, s) /\ tree[s].atom = tree[n].atom))

onlyChildMatcher(tree, n) == firstChildMatcher(tree, n) /\ lastChildMatcher(tree, n)

onlyOfTypeMatcher(tree, n) == firstOfTypeMatcher(tree, n) /\ lastOfTypeMatcher(tree, n)

rootMatcher(tree, n) == tree[n].parent = 0

SameType(tree, s, n) == IsElement(tree, s) /\ tree[s].atom = tree[n].atom

\* The closures of nthChild, nthOfType, nthLastChild, nthLastOfType.
nthChild(nth, tree, n) ==
    nth_matches(nth, 1 + Len(ElementsOf(tree, PrevSiblings(tree, n))))

nthOfType(nth, tree, n) ==
    nth_matches(nth, 1 + Len(SelectSeq(PrevSiblings(tree, n),
                                       LAMBDA s : SameType(tree, s, n))))

nthLastChild(nth, tree, n) ==
    nth_matches(nth, 1 + Len(ElementsOf(tree, NextSiblings(tree, n))))

nthLastOfType(nth, tree, n) ==
    nth_matches(nth, 1 + Len(SelectSeq(NextSiblings(tree, n),
                                       LAMBDA s : SameType(tree, s, n))))

\* Calling the func(*html.Node) bool that compiler.pseudoClassSelector returned.
pseudoSelector_call(p, tree, n) ==
    CASE p.fn = "emptyMatcher" -> emptyMatcher(tree, n)
      [] p.fn = "firstChildMatcher" -> firstChildMatcher(tree, n)
      [] p.fn = "firstOfTypeMatcher" -> firstOfTypeMatcher(tree, n)
      [] p.fn = "lastChildMatcher" -> lastChildMatcher(tree, n)
      [] p.fn = "lastOfTypeMatcher" -> lastOfTypeMatcher(tree, n)
      [] p.fn = "onlyChildMatcher" -> onlyChildMatcher(tree, n)
      [] p.fn = "onlyOfTypeMatcher" -> onlyOfTypeMatcher(tree, n)
      [] p.fn = "rootMatcher" -> rootMatcher(tree, n)
      [] p.fn = "nthChild" -> nthChild(p.nth, tree, n)
      [] p.fn = "nthOfType" -> nthOfType(p.nth, tree, n)
      [] p.fn = "nthLastChild" -> nthLastChild(p.nth, tree, n)
      [] p.fn = "nthLastOfType" -> nthLastOfType(p.nth, tree, n)

IsSpace(r) == r \in {" ", "\t", "\n", "\r", "\f"}

\* val is one of strings.Fields(v)
InFields(v, val) ==
    /\ val # <<>>
    /\ \A k \in 1..Len(val) : ~IsSpace(val[k])
    /\ \E i \in 1..Len(v) :
          /\ i + Len(val) - 1 <= Len(v)
          /\ SubSeq(v, i, i + Len(val) - 1) = val
          /\ (i = 1 \/ IsSpace(v[i - 1]))
          /\ (i + Len(val) - 1 = Len(v) \/ IsSpace(v[i + Len(val)]))

HasSuffix(s, suffix) ==
    Len(suffix) <= Len(s) /\ SubSeq(s, Len(s) - Len(suffix) + 1, Len(s)) = suffix

Contains(s, sub) ==
    \E i \in 0..Len(s) : i + Len(sub) <= Len(s) /\ SubSeq(s, i + 1, i + Len(sub)) = sub

\* attributeSelectorMatcher.fn(k, v)
attributeSelectorMatcher_fn(a, k0, v0) ==
    Bind(IF a.modifier THEN ToLower(k0) ELSE k0, LAMBDA k :
    Bind(IF a.modifier THEN ToLower(v0) ELSE v0, LAMBDA v :
    CASE a.matcher = <<"=">> -> k = a.key /\ v = a.val
      [] a.matcher = <<"~", "=">> -> k = a.key /\ InFields(v, a.val)
      [] a.matcher = <<"|", "=">> ->
            k = a.key /\ (v = a.val \/ HasPrefix(v, a.val \o <<"-">>))
      [] a.matcher = <<"^", "=">> -> k = a.key /\ HasPrefix(v, a.val)
      [] a.matcher = <<"$", "=">> -> k = a.key /\ HasSuffix(v, a.val)
      [] a.matcher = <<"*", "=">> -> k = a.key /\ Contains(v, a.val)
      [] a.matcher = <<>> -> k = a.key))

\* html.Attribute{Namespace, Key, Val} is [ns, key, val].
attributeSelectorMatcher_match(a, tree, n) ==
    \E k \in 1..Len(tree[n].attr) :
        /\ namespaceMatcher_match(a.ns, tree[n].attr[k].ns)
        /\ attributeSelectorMatcher_fn(a, tree[n].attr[k].key, tree[n].attr[k].val)

subclassSelectorMatcher_match(s, tree, n) ==
    IF s.idSelector # <<>>
    THEN \E k \in 1..Len(tree[n].attr) :
             tree[n].attr[k].key = <<"i", "d">> /\ tree[n].attr[k].val = s.idSelector
    ELSE IF s.classSelector # <<>>
    THEN \E k \in 1..Len(tree[n].attr) :
             /\ tree[n].attr[k].key = <<"c", "l", "a", "s", "s">>
             /\ InFields(tree[n].attr[k].val, s.classSelector)
    ELSE IF s.attributeSelector # Nil
    THEN attributeSelectorMatcher_match(s.attributeSelector[1], tree, n)
    ELSE IF s.pseudoSelector # Nil
    THEN pseudoSelector_call(s.pseudoSelector[1], tree, n)
    ELSE FALSE

compoundSelectorMatcher_match(c, tree, n) ==
    /\ c.m # Nil => typeSelectorMatcher_match(c.m[1], tree, n)
    /\ \A k \in 1..Len(c.scm) : subclassSelectorMatcher_match(c.scm[k], tree, n)

\* ------------------------------------------------------------------------
\* Tree search (src/css.go)
\* ------------------------------------------------------------------------

\* findAll as it would be if it listed a node after its descendants.
RECURSIVE findAllPostOrder(_, _, _)
RECURSIVE findAllPostOrderEach(_, _, _)
findAllPostOrder(tree, n, m) ==
    findAllPostOrderEach(tree, ElementsOf(tree, ChildList(tree, n)), m)
        \o (IF compoundSelectorMatcher_match(m, tree, n) THEN <<n>> ELSE <<>>)

findAllPostOrderEach(tree, cs, m) ==
    IF cs = <<>> THEN <<>>
    ELSE findAllPostOrder(tree, Head(cs), m) \o findAllPostOrderEach(tree, Tail(cs), m)

\* findAll(n, m.match); findAllEach is its loop over the children of n.
RECURSIVE findAll(_, _, _)
RECURSIVE findAllEach(_, _, _)
findAll(tree, n, m) ==
    (IF compoundSelectorMatcher_match(m, tree, n) THEN <<n>> ELSE <<>>)
        \o findAllEach(tree, ElementsOf(tree, ChildList(tree, n)), m)

findAllEach(tree, cs, m) ==
    IF cs = <<>> THEN <<>>
    ELSE findAll(tree, Head(cs), m) \o findAllEach(tree, Tail(cs), m)

\* descendantCombinator.find as it would be if it did not test the children
\* of n themselves, only what lies below them.
RECURSIVE findBelowEach(_, _, _)
findBelowEach(tree, cs, m) ==
    IF cs = <<>> THEN <<>>
    ELSE findAllEach(tree, ElementsOf(tree, ChildList(tree, Head(cs))), m)
             \o findBelowEach(tree, Tail(cs), m)

descendantCombinator_findBelow(m, tree, n) ==
    findBelowEach(tree, ElementsOf(tree, ChildList(tree, n)), m)

descendantCombinator_find(m, tree, n) ==
    findAllEach(tree, ElementsOf(tree, ChildList(tree, n)), m)

\* childCombinator.find as it would be if it searched the whole subtree of
\* every child.
childCombinator_findDeep(m, tree, n) ==
    findAllEach(tree, ElementsOf(tree, ChildList(tree, n)), m)

childCombinator_find(m, tree, n) ==
    SelectSeq(ElementsOf(tree, ChildList(tree, n)),
              LAMBDA k : compoundSelectorMatcher_match(m, tree, k))

\* adjacentCombinator.find as it would be if it looked at the following
\* sibling only.
adjacentCombinator_findNextOnly(m, tree, n) ==
    Bind(ElementsOf(tree, NextSiblings(tree, n)), LAMBDA next :
    IF next # <<>> /\ compoundSelectorMatcher_match(m, tree, next[1])
    THEN <<next[1]>> ELSE <<>>)

adjacentCombinator_find(m, tree, n) ==
    Bind(ElementsOf(tree, PrevSiblings(tree, n)), LAMBDA prev :
    Bind(ElementsOf(tree, NextSiblings(tree, n)), LAMBDA next :
    (IF prev # <<>> /\ compoundSelectorMatcher_match(m, tree, prev[1])
     THEN <<prev[1]>> ELSE <<>>)
        \o (IF next # <<>> /\ compoundSelectorMatcher_match(m, tree, next[1])
            THEN <<next[1]>> ELSE <<>>)))

siblingCombinator_find(m, tree, n) ==
    SelectSeq(ElementsOf(tree, PrevSiblings(tree, n)),
              LAMBDA k : compoundSelectorMatcher_match(m, tree, k))
        \o SelectSeq(ElementsOf(tree, NextSiblings(tree, n)),
                     LAMBDA k : compoundSelectorMatcher_match(m, tree, k))

\* c.find(n) for a combinator c of the interface's four implementations.
combinator_find(c, tree, n) ==
    CASE c.kind = "descendantCombinator" -> descendantCombinator_find(c.m[1], tree, n)
      [] c.kind = "childCombinator" -> childCombinator_find(c.m[1], tree, n)
      [] c.kind = "adjacentCombinator" -> adjacentCombinator_find(c.m[1], tree, n)
      [] c.kind = "siblingCombinator" -> siblingCombinator_find(c.m[1], tree, n)

\* The inner loop of selector.find: ns = append(ns, c.find(n)...) over nodes.
RECURSIVE findEach(_, _, _)
findEach(c, tree, nodes) ==
    IF nodes = <<>> THEN <<>>
    ELSE combinator_find(c, tree, Head(nodes)) \o findEach(c, tree, Tail(nodes))

\* The outer loop of selector.find over s.combinators.
RECURSIVE findLoop(_, _, _)
findLoop(combinators, tree, nodes) ==
    IF combinators = <<>> THEN nodes
    ELSE findLoop(Tail(combinators), tree, findEach(Head(combinators), tree, nodes))

selector_find(s, tree, n) ==
    findLoop(s.combinators, tree, findAll(tree, n, s.m[1]))

\* ------------------------------------------------------------------------
\* Lexer (src/unnamed/part_015)
\* ------------------------------------------------------------------------

\* The input is a sequence of bytes.  An ASCII byte is its character; the
\* other bytes of the model are named by their hexadecimal value.  A rune is
\* its character when it is ASCII and is named by its code point otherwise.
eof == "x00"

RuneError == "U+FFFD"

\* U+0100, which stands for every code point above 0x80 other than U+00E9
\* and U+FFFD, all of them taken to be two bytes long.
RuneOther == "U+0100"

NonASCIIBytes == {"xAA", "xC3", "xA9", "xC4", "x80", "xEF", "xBF", "xBD"}

\* The bytes 10xxxxxx among them; xC3 and xC4 start a sequence of two bytes
\* and xEF one of three.
ContinuationBytes == {"xAA", "xA9", "x80", "xBF", "xBD"}

\* utf8.DecodeRuneInString(s[pos:]) for pos < len(s): the rune and its width.
\* A NUL byte decodes to the rune 0, which is what the lexer calls eof; a
\* byte that does not start a well-formed sequence decodes to (RuneError, 1).
\* (No input has the byte xEF, so U+FFFD is the one sequence of three bytes.)
DecodeRuneInString(s, pos) ==
    Bind(s[pos + 1], LAMBDA c :
    IF c \notin NonASCIIBytes THEN [r |-> c, n |-> 1]
    ELSE IF c = "xC3" /\ pos + 2 <= Len(s) /\ s[pos + 2] = "xA9"
    THEN [r |-> "U+E9", n |-> 2]
    ELSE IF c \in {"xC3", "xC4"} /\ pos + 2 <= Len(s) /\ s[pos + 2] \in ContinuationBytes
    THEN [r |-> RuneOther, n |-> 2]
    ELSE IF c = "xEF" /\ pos + 3 <= Len(s) /\ s[pos + 2] = "xBF" /\ s[pos + 3] = "xBD"
    THEN [r |-> RuneError, n |-> 3]
    ELSE [r |-> RuneError, n |-> 1])

\* utf8.RuneLen
RuneLen(r) ==
    IF r = RuneError THEN 3
    ELSE IF r = "U+E9" THEN 2
    ELSE IF r = RuneOther THEN 2
    ELSE 1

\* The bytes strings.Builder.WriteRune appends.
WriteRune(r) ==
    IF r = RuneError THEN <<"xEF", "xBF", "xBD">>
    ELSE IF r = "U+E9" THEN <<"xC3", "xA9">>
    ELSE IF r = RuneOther THEN <<"xC4", "x80">>
    ELSE <<r>>

isWhitespace(r) == r \in {"\n", "\t", " "}

isHex(r) ==
    isDigit(r) \/ r \in {"A", "B", "C", "D", "E", "F", "a", "b", "c", "d", "e", "f"}

isLetter(r) ==
    \E k \in 1..26 : UpperCase[k] = r \/ LowerCase[k] = r

isNonASCII(r) == r \in {"U+E9", RuneError, RuneOther}

isNameStart(r) == isLetter(r) \/ isNonASCII(r) \/ r = "_"

isName(r) == isNameStart(r) \/ isDigit(r) \/ r = "-"

isNumStart(r1, r2, r3) ==
    IF r1 = "+" \/ r1 = "-" THEN isDigit(r2) \/ (r2 = "." /\ isDigit(r3))
    ELSE IF r1 = "." THEN isDigit(r2)
    ELSE isDigit(r1)

isValidEscape(r1, r2) ==
    IF r1 # "\\" THEN FALSE
    ELSE IF r2 = "\n" \/ r2 = eof THEN FALSE
    ELSE TRUE

isIdentStart(r1, r2, r3) ==
    \/ r1 = "-" /\ (isNameStart(r2) \/ isValidEscape(r2, r3))
    \/ isNameStart(r1)
    \/ r1 = "\\" /\ isValidEscape(r1, r2)

\* The runes U+0000..U+007F, at index code point + 1.
ASCII ==
    <<
      "x00", "x01", "x02", "x03", "x04", "x05", "x06", "x07",
      "x08", "\t", "\n", "x0B", "\f", "\r", "x0E", "x0F",
      "x10", "x11", "x12", "x13", "x14", "x15", "x16", "x17",
      "x18", "x19", "x1A", "x1B", "x1C", "x1D", "x1E", "x1F",
      " ", "!", "\"", "#", "$", "%", "&", "'",
      "(", ")", "*", "+", ",", "-", ".", "/",
      "0", "1", "2", "3", "4", "5", "6", "7",
      "8", "9", ":", ";", "<", "=", ">", "?",
      "@", "A", "B", "C", "D", "E", "F", "G",
      "H", "I", "J", "K", "L", "M", "N", "O",
      "P", "Q", "R", "S", "T", "U", "V", "W",
      "X", "Y", "Z", "[", "\\", "]", "^", "_",
      "x60", "a", "b", "c", "d", "e", "f", "g",
      "h", "i", "j", "k", "l", "m", "n", "o",
      "p", "q", "r", "s", "t", "u", "v", "w",
      "x", "y", "z", "{", "|", "}", "~", "x7F"
    >>

isNonPrintable(r) ==
    \E cp \in (0..8) \cup {9} \cup (14..31) \cup {127} : ASCII[cp + 1] = r

\* rune(val) for the value of a hex escape, as WriteRune will treat it: a
\* surrogate is not a valid code point and is written as RuneError.
RuneOf(val) ==
    IF val < 128 THEN ASCII[val + 1]
    ELSE IF val = 233 THEN "U+E9"
    ELSE IF val = 65533 \/ (55296 <= val /\ val <= 57343) THEN RuneError
    ELSE RuneOther

\* lexer{s, last, pos}
newLexer(s) == [s |-> s, last |-> 0, pos |-> 0]

lexer_peek(l) ==
    IF Len(l.s) <= l.pos THEN eof ELSE DecodeRuneInString(l.s, l.pos).r

RECURSIVE peekNFrom(_, _, _)
peekNFrom(s, pos, n) ==
    IF Len(s) <= pos THEN eof
    ELSE IF n = 0 THEN DecodeRuneInString(s, pos).r
    ELSE peekNFrom(s, pos + DecodeRuneInString(s, pos).n, n - 1)

lexer_peekN(l, n) == peekNFrom(l.s, l.pos, n)

push(l, r) == [l EXCEPT !.pos = l.pos - RuneLen(r)]

\* pop returns the rune and leaves the lexer advanced.
pop(l) ==
    IF Len(l.s) <= l.pos THEN [l |-> l, r |-> eof]
    ELSE [l |-> [l EXCEPT !.pos = l.pos + DecodeRuneInString(l.s, l.pos).n],
          r |-> DecodeRuneInString(l.s, l.pos).r]

RECURSIVE popN(_, _)
popN(l, n) == IF n = 0 THEN l ELSE popN(pop(l).l, n - 1)

\* What a lexer method returns: the lexer afterwards and the token, where a
\* *lexErr and a runtime panic are the pseudo-tokens tokenLexErr, tokenPanic.
\* Parse reports lexErr.last as the position of the error.
lexer_errorf(l, msg) ==
    [l |-> l, tok |-> Token(tokenLexErr, <<>>, msg, l.last, tokenFlagNone, <<>>)]

\* l.s[l.last:l.pos] panics when the bounds are not 0 <= last <= pos <= len.
lexer_token(l, typ) ==
    IF l.last > l.pos \/ l.last < 0 \/ l.pos > Len(l.s)
    THEN [l |-> l,
          tok |-> Token(tokenPanic, <<>>, "slice bounds out of range", l.last,
                        tokenFlagNone, <<>>)]
    ELSE [l |-> [l EXCEPT !.last = l.pos],
          tok |-> Token(typ, SubSeq(l.s, l.last + 1, l.pos),
                        SubSeq(l.s, l.last + 1, l.pos), l.last, tokenFlagNone, <<>>)]

IsToken(res) == ~IsErrTok(res.tok)

withString(res, s) == IF IsToken(res) THEN [res EXCEPT !.tok.s = s] ELSE res

withFlag(res, f) == IF IsToken(res) THEN [res EXCEPT !.tok.flag = f] ELSE res

withDim(res, d) == IF IsToken(res) THEN [res EXCEPT !.tok.dim = d] ELSE res

HexDigits == <<"0", "1", "2", "3", "4", "5", "6", "7", "8", "9",
               "a", "b", "c", "d", "e", "f">>

HexDigitVal(r) == (CHOOSE k \in 1..16 : HexDigits[k] = ToLower(<<r>>)[1]) - 1

\* strconv.ParseUint(s, 16, 64) of a non-empty string of hex digits
RECURSIVE ParseUint16(_, _)
ParseUint16(s, acc) ==
    IF s = <<>> THEN acc ELSE ParseUint16(Tail(s), acc * 16 + HexDigitVal(s[1]))

\* What consumeEscape, consumeName return: the lexer and the builder
\* afterwards, and the message of the error if there is one.
Consumed(l, bld, err) == [l |-> l, b |-> bld, err |-> err]

\* The loop of consumeEscape after its first hex digit was popped.
RECURSIVE consumeEscapeLoop(_, _, _, _)
consumeEscapeLoop(l, bld, n, hexRune) ==
    Bind(lexer_peek(l), LAMBDA r :
    IF isHex(r) THEN
        IF n + 1 > 5
        THEN Consumed(pop(l).l, bld, Some("too many hex digits consuming escape sequence"))
        ELSE consumeEscapeLoop(pop(l).l, bld, n + 1, Append(hexRune, r))
    ELSE IF isWhitespace(r) THEN consumeEscapeLoop(pop(l).l, bld, n, hexRune)
    ELSE IF hexRune = <<>>
    THEN Consumed(l, bld, Some("failed to parse hex escape sequence"))
    ELSE Consumed(l, bld \o WriteRune(RuneOf(ParseUint16(hexRune, 0))), Nil))

consumeEscape(l, bld) ==
    Bind(pop(l), LAMBDA p :
    IF p.r = eof THEN Consumed(p.l, bld, Some("unexpected newline after escape sequence"))
    ELSE IF ~isHex(p.r) THEN Consumed(p.l, bld \o WriteRune(p.r), Nil)
    ELSE consumeEscapeLoop(p.l, bld, 0, <<>>))

RECURSIVE consumeName(_, _)
consumeName(l, bld) ==
    Bind(lexer_peek(l), LAMBDA r :
    IF isName(r) THEN consumeName(pop(l).l, bld \o WriteRune(pop(l).r))
    ELSE IF isValidEscape(r, lexer_peekN(l, 1)) THEN
        Bind(consumeEscape(pop(l).l, bld), LAMBDA e :
        IF e.err # Nil THEN e ELSE consumeName(e.l, e.b))
    ELSE Consumed(l, bld, Nil))

\* b.WriteRune(l.pop()), n times
RECURSIVE writePop(_, _, _)
writePop(l, bld, n) ==
    IF n = 0 THEN Consumed(l, bld, Nil)
    ELSE writePop(pop(l).l, bld \o WriteRune(pop(l).r), n - 1)

\* for isDigit(l.peek()) { b.WriteRune(l.pop()) }
RECURSIVE writeDigits(_, _)
writeDigits(l, bld) ==
    IF isDigit(lexer_peek(l)) THEN writeDigits(pop(l).l, bld \o WriteRune(pop(l).r))
    ELSE Consumed(l, bld, Nil)

\* b.WriteRune(l.pop()), n times, and then the digits that follow.
writePopDigits(l, bld, n) ==
    Bind(writePop(l, bld, n), LAMBDA w : writeDigits(w.l, w.b))

\* What consumeNumber has done so far: the lexer, the builder and the flag f.
Numbered(w, f) == [l |-> w.l, b |-> w.b, f |-> f]

\* Steps 2 and 3 of consumeNumber: the sign and the digits.
consumeInteger(l, bld) ==
    writePopDigits(l, bld,
                   IF lexer_peek(l) = "+" \/ lexer_peek(l) = "-" THEN 1 ELSE 0)

\* Step 4: the fraction.
consumeFraction(w) ==
    IF lexer_peek(w.l) = "." /\ isDigit(lexer_peekN(w.l, 1))
    THEN Numbered(writePopDigits(w.l, w.b, 2), tokenFlagNumber)
    ELSE Numbered(w, tokenFlagInteger)

\* Step 5: the exponent; r1, r2, r3 are the runes peeked before it.
consumeExponent(c, r1, r2, r3) ==
    IF ~(r1 = "E" \/ r1 = "e") THEN c
    ELSE IF isDigit(r2)
    THEN Numbered(writePopDigits(c.l, c.b, 2), tokenFlagNumber)
    ELSE IF (r2 = "+" \/ r2 = "-") /\ isDigit(r3)
    THEN Numbered(writePopDigits(c.l, c.b, 3), tokenFlagNumber)
    ELSE Numbered(c, tokenFlagNumber)

\* consumeNumber returns the flag; the model returns the lexer and builder too.
consumeNumber(l, bld) ==
    Bind(consumeFraction(consumeInteger(l, bld)), LAMBDA c :
        consumeExponent(c, lexer_peek(c.l), lexer_peekN(c.l, 1),
                        lexer_peekN(c.l, 2)))

\* The three ways numericToken ends, c being what consumeNumber returned.
dimensionToken(c, dim) ==
    IF dim.err # Nil THEN lexer_errorf(dim.l, dim.err[1])
    ELSE withDim(withFlag(withString(lexer_token(dim.l, tokenDimension), c.b),
                          c.f), dim.b)

percentToken(c, p) ==
    withFlag(withString(lexer_token(p.l, tokenPercent), c.b \o WriteRune(p.r)),
             tokenFlagNumber)

numberToken(c) == withFlag(withString(lexer_token(c.l, tokenNumber), c.b), c.f)

numericToken(l) ==
    Bind(consumeNumber(l, <<>>), LAMBDA c :
        IF isIdentStart(lexer_peek(c.l), lexer_peekN(c.l, 1), lexer_peekN(c.l, 2))
        THEN dimensionToken(c, consumeName(c.l, <<>>))
        ELSE IF lexer_peek(c.l) = "%" THEN percentToken(c, pop(c.l))
        ELSE numberToken(c))

startsURL(l, bld) ==
    Bind(IF ~isWhitespace(lexer_peekN(l, 4)) THEN 4
         ELSE IF ~isWhitespace(lexer_peekN(l, 5)) THEN 5
         ELSE 6, LAMBDA n :
    Bind(lexer_peekN(l, n), LAMBDA r1 :
    Bind(lexer_peekN(l, n + 1), LAMBDA r2 :
    Bind(IF isWhitespace(r1) THEN r2 ELSE r1, LAMBDA r :
    IF ~(lexer_peek(l) = "u" \/ lexer_peek(l) = "U") THEN [ok |-> FALSE, l |-> l, b |-> bld]
    ELSE IF ~(lexer_peekN(l, 1) = "r" \/ lexer_peekN(l, 1) = "R")
    THEN [ok |-> FALSE, l |-> l, b |-> bld]
    ELSE IF ~(lexer_peekN(l, 2) = "l" \/ lexer_peekN(l, 2) = "L")
    THEN [ok |-> FALSE, l |-> l, b |-> bld]
    ELSE IF lexer_peekN(l, 3) # "(" THEN [ok |-> FALSE, l |-> l, b |-> bld]
    ELSE IF r = "'" \/ r = "\"" THEN [ok |-> FALSE, l |-> l, b |-> bld]
    ELSE [ok |-> TRUE, l |-> writePop(l, bld, 4).l, b |-> writePop(l, bld, 4).b]))))

\* for isWhitespace(l.peek()) { b.WriteRune(l.pop()) }
RECURSIVE writeWhitespace(_, _)
writeWhitespace(l, bld) ==
    IF isWhitespace(lexer_peek(l))
    THEN writeWhitespace(pop(l).l, bld \o WriteRune(pop(l).r))
    ELSE Consumed(l, bld, Nil)

\* The second loop of consumeURL.
RECURSIVE consumeURLLoop(_, _)
consumeURLLoop(l, bld) ==
    Bind(pop(l), LAMBDA p :
    Bind(p.r, LAMBDA r :
    IF r = ")" THEN withString(lexer_token(p.l, tokenURL), bld \o WriteRune(r))
    ELSE IF r = eof THEN lexer_errorf(p.l, "unexpected eof parsing URL")
    ELSE IF isWhitespace(r) THEN
        Bind(writeWhitespace(p.l, bld \o WriteRune(r)), LAMBDA w :
        Bind(pop(w.l), LAMBDA q :
        IF q.r = ")" THEN withString(lexer_token(q.l, tokenURL), w.b \o WriteRune(q.r))
        ELSE lexer_errorf(q.l, "unexpected character parsing URL")))
    ELSE IF r = "'" \/ r = "\"" \/ r = "(" \/ isNonPrintable(r)
    THEN lexer_errorf(p.l, "invalid character parsing URL")
    ELSE IF r = "\\" THEN
        IF ~isValidEscape(r, lexer_peek(p.l))
        THEN lexer_errorf(p.l, "invalid '\\' parsing URL")
        ELSE Bind(consumeEscape(p.l, bld), LAMBDA e :
             IF e.err # Nil THEN lexer_errorf(e.l, "invalid escape parsing URL")
             ELSE consumeURLLoop(e.l, e.b))
    ELSE consumeURLLoop(p.l, bld \o WriteRune(r))))

consumeURL(l, bld) ==
    consumeURLLoop(writeWhitespace(l, bld).l, writeWhitespace(l, bld).b)

identLikeToken(l) ==
    Bind(startsURL(l, <<>>), LAMBDA u :
    Bind(consumeName(l, <<>>), LAMBDA n :
    IF u.ok THEN consumeURL(u.l, u.b)
    ELSE IF n.err # Nil THEN lexer_errorf(n.l, n.err[1])
    ELSE IF lexer_peek(n.l) = "("
    THEN withString(lexer_token(pop(n.l).l, tokenFunction),
                    n.b \o WriteRune(pop(n.l).r))
    ELSE withString(lexer_token(n.l, tokenIdent), n.b)))

\* switch l.peek() after a backslash in lexer.string, with the newline case
\* left out: the newline would be taken for an escaped character.
afterBackslashNoNewline(l) ==
    IF lexer_peek(l) = eof THEN "eof" ELSE "escape"

\* switch l.peek() after a backslash in lexer.string
afterBackslash(l) ==
    IF lexer_peek(l) = eof THEN "eof"
    ELSE IF lexer_peek(l) = "\n" THEN "newline"
    ELSE "escape"

\* The loop of lexer.string.
RECURSIVE stringLoop(_, _, _)
stringLoop(l, quote, bld) ==
    Bind(pop(l), LAMBDA p :
    Bind(p.r, LAMBDA r :
    IF r = quote THEN withString(lexer_token(p.l, tokenString), bld)
    ELSE IF r = eof THEN lexer_errorf(p.l, "unexpected eof parsing string")
    ELSE IF r = "\n" THEN lexer_errorf(p.l, "unexpected newline parsing string")
    ELSE IF r = "\\" THEN
        IF afterBackslash(p.l) = "eof" THEN stringLoop(p.l, quote, bld)
        ELSE IF afterBackslash(p.l) = "newline"
        THEN lexer_errorf(p.l, "unexpected newline after '\\' parsing string")
        ELSE Bind(consumeEscape(p.l, bld), LAMBDA e :
             IF e.err # Nil THEN lexer_errorf(e.l, "parsing string")
             ELSE stringLoop(e.l, quote, e.b))
    ELSE stringLoop(p.l, quote, bld \o WriteRune(r))))

lexer_string(l, quote) == stringLoop(l, quote, <<>>)

\* for isWhitespace(l.peek()) { l.pop() }
RECURSIVE popWhitespace(_)
popWhitespace(l) ==
    IF isWhitespace(lexer_peek(l)) THEN popWhitespace(pop(l).l) ELSE l

\* l.push(r) followed by a call of identLikeToken or numericToken: the first
\* thing either does is l.peek(), whose l.s[l.pos:] panics on a negative pos.
reconsume(l, r, numeric) ==
    Bind(push(l, r), LAMBDA pushed :
        IF pushed.pos < 0
        THEN [l |-> pushed,
              tok |-> Token(tokenPanic, <<>>, "slice bounds out of range",
                            l.last, tokenFlagNone, <<>>)]
        ELSE IF numeric THEN numericToken(pushed)
        ELSE identLikeToken(pushed))

\* The name of a hash or at-keyword token: b.WriteRune(r), l.consumeName(&b).
namedToken(l, r, typ, flag) ==
    Bind(consumeName(l, WriteRune(r)), LAMBDA n :
    IF n.err # Nil THEN lexer_errorf(n.l, n.err[1])
    ELSE withFlag(withString(lexer_token(n.l, typ), n.b), flag))

\* The branch lexer.next takes on the rune r it popped; r1, r2, r3 are the
\* runes l.peek(), l.peekN(1), l.peekN(2) would return.  A branch that does
\* nothing but return l.token(typ) is named by typ.
nextBranch(r, r1, r2, r3) ==
    IF isWhitespace(r) THEN "whitespace"
    ELSE IF isDigit(r) THEN "numeric"
    ELSE IF isNameStart(r) THEN "identLike"
    ELSE IF r = "\"" \/ r = "'" THEN "string"
    ELSE IF r = eof THEN tokenEOF
    ELSE IF r = "#" THEN
        IF isName(r1) \/ isValidEscape(r1, r2) THEN "hash" ELSE tokenDelim
    ELSE IF r = "(" THEN tokenParenOpen
    ELSE IF r = ")" THEN tokenParenClose
    ELSE IF r = "+" THEN
        IF isNumStart(r, r1, r2) THEN "numeric" ELSE tokenDelim
    ELSE IF r = "," THEN tokenComma
    ELSE IF r = "-" THEN
        IF isNumStart(r, r1, r2) THEN "numeric"
        ELSE IF r1 = "-" /\ r2 = ">" THEN "cdc"
        ELSE IF isIdentStart(r, r1, r2) THEN "identLike"
        ELSE tokenDelim
    ELSE IF r = "." THEN
        IF isNumStart(r, r1, r2) THEN "numeric" ELSE tokenDelim
    ELSE IF r = ":" THEN tokenColon
    ELSE IF r = ";" THEN tokenSemicolon
    ELSE IF r = "<" THEN
        IF r1 = "!" /\ r2 = "-" /\ r3 = "-" THEN "cdo" ELSE tokenDelim
    ELSE IF r = "@" THEN
        IF isIdentStart(r1, r2, r3) THEN "atKeyword" ELSE tokenDelim
    ELSE IF r = "[" THEN tokenBracketOpen
    ELSE IF r = "\\" THEN
        IF ~isValidEscape(r, r1) THEN "invalid escape" ELSE "identLike"
    ELSE IF r = "]" THEN tokenBracketClose
    ELSE IF r = "{" THEN tokenCurlyOpen
    ELSE IF r = "}" THEN tokenCurlyClose
    ELSE tokenDelim

\* What lexer.next does in that branch.
nextIn(branch, l, r) ==
    IF branch = "whitespace" THEN lexer_token(popWhitespace(l), tokenWhitespace)
    ELSE IF branch \in {"numeric", "identLike"}
    THEN reconsume(l, r, branch = "numeric")
    ELSE IF branch = "string" THEN lexer_string(l, r)
    ELSE IF branch = "hash" THEN namedToken(l, r, tokenHash, tokenFlagID)
    ELSE IF branch = "atKeyword"
    THEN namedToken(l, r, tokenAtKeyword, tokenFlagNone)
    ELSE IF branch = "cdc" THEN lexer_token(popN(l, 2), tokenCDC)
    ELSE IF branch = "cdo" THEN lexer_token(popN(l, 3), tokenCDO)
    ELSE IF branch = "invalid escape"
    THEN lexer_errorf(l, "invalid escape character")
    ELSE lexer_token(l, branch)

lexer_next(l0) ==
    Bind(pop(l0), LAMBDA p :
        nextIn(nextBranch(p.r, lexer_peek(p.l), lexer_peekN(p.l, 1),
                          lexer_peekN(p.l, 2)),
               p.l, p.r))

\* The tokens the parser can draw from newLexer(s): the calls of l.next() up
\* to the first EOF token, error or panic.  The parser asks for no token
\* after an EOF token or an error.
\* A call that leaves pos and last as they were is repeated by every later
\* call, l.next() being a function of the two.
RECURSIVE lexAll(_, _), lexMore(_, _, _)
lexAll(l, acc) == lexMore(l, acc, lexer_next(l))

lexMore(l, acc, res) ==
    IF IsErrTok(res.tok) THEN Append(acc, res.tok)
    ELSE IF res.tok.typ = tokenEOF THEN acc
    ELSE IF res.l = l
    THEN acc \o <<res.tok,
                  Token(tokenRepeat, <<>>, <<>>, l.pos, tokenFlagNone, <<>>)>>
    ELSE lexAll(res.l, Append(acc, res.tok))

Lex(s) == lexAll(newLexer(s), <<>>)

\* Parse(s)
Parse(s) == ParseTokens(Lex(s))

\* ------------------------------------------------------------------------
\* SpecSelect: Parse a selector, then Select on a tree
\* ------------------------------------------------------------------------

\* The largest number of nodes of a tree.
MaxNodes == 3

\* The largest number of compound selectors of a selector string.
MaxCompounds == 2

\* The compound selectors and what joins them in the selector strings tried.
Compounds == {<<"a">>, <<"p">>}

Joins == {<<" ">>, <<">">>, <<"+">>, <<"~">>, <<",">>}

RECURSIVE SelectorTexts(_)
SelectorTexts(k) ==
    IF k = 1 THEN Compounds
    ELSE {t \o j \o c : t \in SelectorTexts(k - 1), j \in Joins, c \in Compounds}

\* The nodes of a tree are numbered in document order (a pre-order walk), so
\* the parent of node k + 1 is node k or one of node k's ancestors.
RECURSIVE AncestorsOrSelf(_, _)
AncestorsOrSelf(tree, n) ==
    IF n = 0 THEN {} ELSE {n} \cup AncestorsOrSelf(tree, tree[n].parent)

RootLabels == {[typ |-> DocumentNode, atom |-> <<>>],
               [typ |-> ElementNode, atom |-> <<"a">>],
               [typ |-> ElementNode, atom |-> <<"p">>]}

InnerLabels == {[typ |-> TextNode, atom |-> <<>>],
                [typ |-> ElementNode, atom |-> <<"a">>],
                [typ |-> ElementNode, atom |-> <<"p">>]}

\* The trees of n + 1 nodes that extend tree by one last node.
Extend(tree) ==
    {Append(tree, Node(l.typ, l.atom, <<>>, <<>>, par)) :
        l \in InnerLabels,
        par \in {k \in AncestorsOrSelf(tree, Len(tree)) : tree[k].typ # TextNode}}

RECURSIVE Trees(_)
Trees(n) ==
    IF n = 1 THEN {<<Node(l.typ, l.atom, <<>>, <<>>, 0)>> : l \in RootLabels}
    ELSE UNION {Extend(t) : t \in Trees(n - 1)}

NoTree == <<>>

\* A nil *queue.
NoQueue == [vals |-> <<>>, start |-> 0, n |-> 0]

NoLexer == newLexer(<<>>)

NoResult ==
    [sel |-> Nil, err |-> Nil, panic |-> FALSE, loops |-> FALSE, errs |-> <<>>]

\* The values of the variables a specification does not use.
SelectIdle ==
    /\ doc = NoTree /\ start = 0 /\ sels = Nil /\ idx = 0
    /\ selected = <<>> /\ parts = <<>>

PeekIdle ==
    pq = NoQueue /\ perr = Nil /\ ret = Nil /\ pushes = <<>> /\ popped = 0

NthIdle == nthA = 0 /\ nthB = 0 /\ nthVal = 0 /\ nthRes = <<>>

LexIdle == lx = NoLexer /\ toks = <<>>

ParseIdle == ast = Nil /\ result = NoResult /\ probe = NoTree /\ matched = <<>>

InitSelect ==
    /\ pc = "Parse"
    /\ src \in UNION {SelectorTexts(k) : k \in 1..MaxCompounds}
    /\ doc \in UNION {Trees(n) : n \in 1..MaxNodes}
    /\ start \in 1..Len(doc)
    /\ sels = Nil /\ idx = 0 /\ selected = <<>> /\ parts = <<>>
    /\ NthIdle /\ LexIdle /\ ParseIdle
    /\ PeekIdle

\* sel, err := Parse(src)
DoParse ==
    /\ pc = "Parse"
    /\ \E r \in {Parse(src)} :
        /\ sels' = r.sel
        /\ pc' = IF r.sel # Nil THEN "Select" ELSE "ParseFailed"
    /\ UNCHANGED <<src, doc, start, idx, selected, parts, nthA, nthB, nthVal,
                   nthRes, lx, toks, ast, result, probe, matched,
                   pq, perr, ret, pushes, popped>>

\* Select as it would be if it dropped the nodes an earlier member listed.
SelectStepMerging ==
    /\ pc = "Select"
    /\ idx < Len(sels[1])
    /\ \E found \in {selector_find(sels[1][idx + 1], doc, start)} :
        /\ selected' = selected \o SelectSeq(found,
                              LAMBDA n : \A k \in 1..Len(selected) : selected[k] # n)
        /\ parts' = Append(parts, found)
    /\ idx' = idx + 1
    /\ UNCHANGED <<pc, src, doc, start, sels, nthA, nthB, nthVal, nthRes, lx,
                   toks, ast, result, probe, matched,
                   pq, perr, ret, pushes, popped>>

\* One iteration of the loop of Selector.Select:
\* selected = append(selected, sel.find(n)...)
SelectStep ==
    /\ pc = "Select"
    /\ idx < Len(sels[1])
    /\ \E found \in {selector_find(sels[1][idx + 1], doc, start)} :
        /\ selected' = selected \o found
        /\ parts' = Append(parts, found)
    /\ idx' = idx + 1
    /\ UNCHANGED <<pc, src, doc, start, sels, nthA, nthB, nthVal, nthRes, lx,
                   toks, ast, result, probe, matched,
                   pq, perr, ret, pushes, popped>>

\* return selected
SelectReturn ==
    /\ pc = "Select"
    /\ idx = Len(sels[1])
    /\ pc' = "Selected"
    /\ UNCHANGED <<src, doc, start, sels, idx, selected, parts, nthA, nthB,
                   nthVal, nthRes, lx, toks, ast, result, probe, matched,
                   pq, perr, ret, pushes, popped>>

NextSelect == DoParse \/ SelectStep \/ SelectReturn

SpecSelect == InitSelect /\ [][NextSelect]_vars

\* ------------------------------------------------------------------------
\* Properties of Select (SpecSelect)
\* ------------------------------------------------------------------------

RECURSIVE Flatten(_)
Flatten(ss) == IF ss = <<>> THEN <<>> ELSE Head(ss) \o Flatten(Tail(ss))

Range(s) == {s[k] : k \in 1..Len(s)}

NoDuplicates(s) == \A i, j \in 1..Len(s) : i # j => s[i] # s[j]

\* The nodes are numbered by a pre-order walk, so document order is the order
\* of the numbers.
InDocumentOrder(s) == \A i \in 1..(Len(s) - 1) : s[i] <= s[i + 1]

OnlyChildCombinators(s) ==
    \A k \in 1..Len(s.combinators) : s.combinators[k].kind = "childCombinator"

\* The selector "A B" for the selector "A > B": every child combinator
\* becomes a descendant combinator.
AsDescendant(s) ==
    [s EXCEPT !.combinators =
        [k \in 1..Len(s.combinators) |->
            IF s.combinators[k].kind = "childCombinator"
            THEN [s.combinators[k] EXCEPT !.kind = "descendantCombinator"]
            ELSE s.combinators[k]]]

\* C1: when Select returns, its result is the concatenation, in the order of
\* the selector list, of what each member's find returned: nothing is merged,
\* re-sorted or dropped across members.
C1_SelectConcatenates ==
    pc = "Selected" =>
        /\ Len(parts) = Len(sels[1])
        /\ \A k \in 1..Len(parts) : parts[k] = selector_find(sels[1][k], doc, start)
        /\ selected = Flatten(parts)

\* Select returned a node twice because two members of the list matched it.
C1_Witness ==
    /\ pc = "Selected"
    /\ Len(parts) = 2
    /\ Range(parts[1]) \cap Range(parts[2]) # {}
    /\ Len(selected) = Len(parts[1]) + Len(parts[2])

\* C2 as claimed: no node occurs twice in the part of the result that one
\* complex selector contributes, whatever its combinators.
C2_Original == \A k \in 1..Len(parts) : NoDuplicates(parts[k])

\* C2 as amended: no node occurs twice in the part contributed by a complex
\* selector that has no combinator or only child combinators.
C2_NoDuplicatesChildOnly ==
    \A k \in 1..Len(parts) :
        OnlyChildCombinators(sels[1][k]) => NoDuplicates(parts[k])

\* A complex selector with a child combinator contributed two nodes.
C2_Witness ==
    \E k \in 1..Len(parts) :
        /\ Len(sels[1][k].combinators) > 0
        /\ OnlyChildCombinators(sels[1][k])
        /\ Len(parts[k]) >= 2

\* C3 as claimed: the part of the result that one complex selector
\* contributes is in document order, whatever its combinators.
C3_Original == \A k \in 1..Len(parts) : InDocumentOrder(parts[k])

\* C3 as amended: the part contributed by a complex selector that is a single
\* compound selector, without combinator, is in document order.
C3_DocumentOrderNoCombinator ==
    \A k \in 1..Len(parts) :
        Len(sels[1][k].combinators) = 0 => InDocumentOrder(parts[k])

\* A complex selector without combinator contributed two nodes.
C3_Witness ==
    \E k \in 1..Len(parts) :
        /\ Len(sels[1][k].combinators) = 0
        /\ Len(parts[k]) >= 2

\* C8: every node that "A > B" selects is selected by "A B" on the same tree.
C8_ChildSubsetOfDescendant ==
    \A k \in 1..Len(parts) :
        Range(parts[k]) \subseteq
            Range(selector_find(AsDescendant(sels[1][k]), doc, start))

\* "A > B" selected a node and "A B" selects a node more.
C8_Witness ==
    \E k \in 1..Len(parts) :
        /\ Len(sels[1][k].combinators) = 1
        /\ sels[1][k].combinators[1].kind = "childCombinator"
        /\ parts[k] # <<>>
        /\ Range(parts[k]) # Range(selector_find(AsDescendant(sels[1][k]), doc, start))

\* ------------------------------------------------------------------------
\* SpecNth: nth.matches on its own
\* ------------------------------------------------------------------------

InitNth ==
    /\ pc = "matches"
    /\ nthA \in MinInt..MaxInt
    /\ nthB \in MinInt..MaxInt
    /\ nthVal \in 1..MaxInt
    /\ nthRes = <<>>
    /\ src = <<>>
    /\ SelectIdle /\ LexIdle /\ ParseIdle
    /\ PeekIdle

\* nth{a, b}.matches(val)
CallMatches ==
    /\ pc = "matches"
    /\ nthRes' = <<nth_matches([a |-> nthA, b |-> nthB], nthVal)>>
    /\ pc' = "matched"
    /\ UNCHANGED <<src, doc, start, sels, idx, selected, parts, nthA, nthB,
                   nthVal, lx, toks, ast, result, probe, matched,
                   pq, perr, ret, pushes, popped>>

NextNth == CallMatches

SpecNth == InitNth /\ [][NextNth]_vars

\* ------------------------------------------------------------------------
\* SpecLex: the calls of lexer.next on one input
\* ------------------------------------------------------------------------

\* The largest number of bytes of an input of the lexer.
MaxInput == 3

\* The bytes the inputs are made of.
LexBytes == {"a", "1", "-", "\\", "\"", " ", "(", "x00", "xAA", "xC3", "xA9"}

RECURSIVE ByteStrings(_)
ByteStrings(n) ==
    IF n = 0 THEN {<<>>}
    ELSE {Append(s, c) : s \in ByteStrings(n - 1), c \in LexBytes}

InitLex ==
    /\ pc = "next"
    /\ src \in UNION {ByteStrings(n) : n \in 0..MaxInput}
    /\ lx = newLexer(src)
    /\ toks = <<>>
    /\ SelectIdle /\ NthIdle /\ ParseIdle
    /\ PeekIdle

\* The largest number of calls of l.next() after the first EOF token.
MaxCallsAfterEOF == 2

\* The calls of l.next() made after the one that returned the first EOF token.
CallsAfterEOF(ts) ==
    IF \E k \in 1..Len(ts) : ts[k].typ = tokenEOF
    THEN Len(ts) - Min({k \in 1..Len(ts) : ts[k].typ = tokenEOF})
    ELSE 0

\* t, err := l.next(): the calls up to an error, a panic or a token that the
\* lexer repeats for ever, and MaxCallsAfterEOF calls after the first EOF token
LexNext ==
    /\ pc \in {"next", "eof"}
    /\ CallsAfterEOF(toks) < MaxCallsAfterEOF
    /\ \E res \in {lexer_next(lx)} :
        /\ lx' = res.l
        /\ toks' = Append(toks, res.tok)
        /\ pc' = IF res.tok.typ = tokenPanic THEN "panic"
                 ELSE IF res.tok.typ = tokenLexErr THEN "error"
                 ELSE IF res.tok.typ = tokenEOF THEN "eof"
                 ELSE IF res.l = lx THEN "repeat"
                 ELSE "next"
    /\ UNCHANGED <<src, doc, start, sels, idx, selected, parts, nthA, nthB,
                   nthVal, nthRes, ast, result, probe, matched,
                   pq, perr, ret, pushes, popped>>

NextLex == LexNext

SpecLex == InitLex /\ [][NextLex]_vars

\* ------------------------------------------------------------------------
\* SpecParse: Parse a selector string, then try the Selector on one element
\* ------------------------------------------------------------------------

\* The largest number of pieces of a selector string.
MaxPieces == 3

\* The pieces the selector strings are made of.
Pieces ==
    {<<"a">>, <<"z", "z">>, <<"s", "v", "g">>, <<"*">>, <<"|">>, <<":">>,
     <<":", "r", "o", "o", "t">>, <<" ">>, <<",">>, <<">">>, <<"(">>,
     <<"a", "(">>, <<":", ":", "a">>,
     <<"[", "a", "]">>,
     <<":", "n", "t", "h", "-", "c", "h", "i", "l", "d", "(", "2", "n", "+", "1", ")">>,
     <<":", "n", "t", "h", "-", "c", "h", "i", "l", "d", "(", "n", "-", "1", ")">>,
     <<"xAA">>}

RECURSIVE PieceTexts(_)
PieceTexts(n) ==
    IF n = 0 THEN {<<>>}
    ELSE {t \o q : t \in PieceTexts(n - 1), q \in Pieces}

\* The elements the Selector is tried on: <a> and <svg> in three namespaces.
Namespaces == {<<>>, <<"s", "v", "g">>, <<"m", "a", "t", "h">>}

Probes ==
    {<<Node(ElementNode, tag, ns, <<>>, 0)>> :
        tag \in {<<"a">>, <<"s", "v", "g">>}, ns \in Namespaces}

\* Selector.Select
Select(s, tree, n) ==
    Flatten([k \in 1..Len(s) |-> selector_find(s[k], tree, n)])

InitParse ==
    /\ pc = "Parse"
    /\ src \in UNION {PieceTexts(n) : n \in 0..MaxPieces}
    /\ ast = Nil /\ result = NoResult /\ probe = NoTree /\ matched = <<>>
    /\ SelectIdle /\ NthIdle /\ LexIdle
    /\ PeekIdle

\* sel, err := Parse(src); ast is what p.parse() returned on the way
ParseCall ==
    /\ pc = "Parse"
    /\ \E list \in {parse(Lex(src))} :
        /\ ast' = list.val
        /\ result' = ParseList(list)
        /\ pc' = IF result'.panic THEN "Panicked"
                 ELSE IF result'.loops THEN "Looping"
                 ELSE "Parsed"
    /\ UNCHANGED <<src, doc, start, sels, idx, selected, parts, nthA, nthB,
                   nthVal, nthRes, lx, toks, probe, matched,
                   pq, perr, ret, pushes, popped>>

\* sel.Select(n) for an element n that is a tree of its own
ProbeCall ==
    /\ pc = "Parsed"
    /\ result.sel # Nil
    /\ probe' \in Probes
    /\ matched' = <<Select(result.sel[1], probe', 1) # <<>> >>
    /\ pc' = "Probed"
    /\ UNCHANGED <<src, doc, start, sels, idx, selected, parts, nthA, nthB,
                   nthVal, nthRes, lx, toks, ast, result,
                   pq, perr, ret, pushes, popped>>

NextParse == ParseCall \/ ProbeCall

SpecParse == InitParse /\ [][NextParse]_vars

\* ------------------------------------------------------------------------
\* Properties of Parse (SpecParse) and of nth.matches (SpecNth)
\* ------------------------------------------------------------------------

\* C4: Parse is total.  Whatever bytes it is given, the call returns, and it
\* returns either a Selector or an error: it does not panic and it does not
\* loop for ever.
C4_ParseIsTotal ==
    pc # "Parse" =>
        /\ ~result.panic
        /\ ~result.loops
        /\ (result.sel # Nil) # (result.err # Nil)

\* A compiled compound selector has everything its parsed form asks for.
CompoundWellFormed(cm, cs) ==
    /\ cm # Nil
    /\ cs.typeSelector # Nil => cm[1].m # Nil
    /\ Len(cm[1].scm) = Len(cs.subClasses)
    /\ \A i \in 1..Len(cs.subClasses) :
        /\ cs.subClasses[i].attributeSelector # Nil
              => cm[1].scm[i].attributeSelector # Nil
        /\ cs.subClasses[i].pseudoClassSelector # Nil
              => cm[1].scm[i].pseudoSelector # Nil

SelectorWellFormed(s, chain) ==
    /\ CompoundWellFormed(s.m, chain[1].sel)
    /\ Len(s.combinators) = Len(chain) - 1
    /\ \A j \in 1..Len(s.combinators) :
        CompoundWellFormed(s.combinators[j].m, chain[j + 1].sel)

\* C5: when Parse returns a nil error, every compound matcher, combinator
\* matcher, attribute matcher and pseudo-class predicate of the Selector is
\* there (non-nil); when a compile step recorded an error, Parse returns an
\* error and no Selector.
C5_CompiledSelectorWellFormed ==
    pc \in {"Parsed", "Probed"} =>
        /\ result.err = Nil =>
            /\ result.sel # Nil
            /\ ast # Nil
            /\ Len(result.sel[1]) = Len(ast[1])
            /\ \A k \in 1..Len(ast[1]) :
                SelectorWellFormed(result.sel[1][k], ast[1][k])
        /\ result.errs # <<>> => result.sel = Nil /\ result.err # Nil

C5_Witness ==
    /\ pc = "Parsed"
    /\ result.err = Nil
    /\ result.sel # Nil
    /\ \E k \in 1..Len(result.sel[1]) :
        /\ Len(result.sel[1][k].combinators) > 0
        /\ \E j \in 1..Len(result.sel[1][k].combinators) :
            LET cm == result.sel[1][k].combinators[j].m[1] IN
            \E i \in 1..Len(cm.scm) : cm.scm[i].pseudoSelector # Nil

\* C6: nth{a, b}.matches(p) is true exactly when a*n + b = p has a solution
\* n >= 0, for all a and b and every position p >= 1.  (No solution is larger
\* than MaxInt - MinInt.)
C6_NthMatchesIffSolvable ==
    nthRes # <<>> =>
        (nthRes[1] <=> \E n \in 0..(MaxInt - MinInt) : nthA * n + nthB = nthVal)

\* C7: for an element with tag T and namespace N, "*|T" matches for every N,
\* "|T" matches iff N is empty, "ns|T" matches iff N = ns, and "T" matches
\* for every N; none of them matches an element with another tag.
C7_NamespacePolicy ==
    pc = "Probed" =>
        \A tag \in {<<"a">>, <<"s", "v", "g">>} :
            LET el == probe[1]
                m == matched[1]
            IN
            /\ src = <<"*", "|">> \o tag => (m <=> el.atom = tag)
            /\ src = <<"|">> \o tag => (m <=> (el.atom = tag /\ el.ns = <<>>))
            /\ \A ns \in {<<"a">>, <<"s", "v", "g">>} :
                src = ns \o <<"|">> \o tag
                    => (m <=> (el.atom = tag /\ el.ns = ns))
            /\ src = tag => (m <=> el.atom = tag)

C7_Witness ==
    /\ pc = "Probed"
    /\ src = <<"s", "v", "g", "|", "a">>
    /\ probe[1].atom = <<"a">>
    /\ probe[1].ns = <<"s", "v", "g">>
    /\ matched = <<TRUE>>

\* Some compound selector of the parsed list has a type selector whose name
\* is neither "*" nor a known tag.
HasUnknownTag(list) ==
    \E k \in 1..Len(list) : \E j \in 1..Len(list[k]) :
        LET t == list[k][j].sel.typeSelector IN
        t # Nil /\ t[1].value # <<"*">> /\ Lookup(t[1].value) = <<>>

\* C9: for a selector with a type selector whose name is neither "*" nor a
\* known tag, Parse returns an error and no Selector.
C9_UnknownTagIsAnError ==
    (pc \in {"Parsed", "Probed"} /\ ast # Nil /\ HasUnknownTag(ast[1]))
        => (result.sel = Nil /\ result.err # Nil)

C9_Witness ==
    /\ pc = "Parsed"
    /\ ast # Nil
    /\ Len(ast[1]) = 1 /\ Len(ast[1][1]) = 2
    /\ HasUnknownTag(ast[1])
    /\ result.err # Nil

\* Some compound selector of the parsed list carries a pseudo-element.
HasPseudoElement(list) ==
    \E k \in 1..Len(list) : \E j \in 1..Len(list[k]) :
        Len(list[k][j].sel.pseudoSelectors) > 0

\* C10: for a selector in which a compound selector carries a pseudo-element,
\* Parse returns an error and no Selector.
C10_PseudoElementIsAnError ==
    (pc \in {"Parsed", "Probed"} /\ ast # Nil /\ HasPseudoElement(ast[1]))
        => (result.sel = Nil /\ result.err # Nil)

C10_Witness ==
    /\ pc = "Parsed"
    /\ ast # Nil
    /\ HasPseudoElement(ast[1])
    /\ \E k \in 1..Len(ast[1]) : \E j \in 1..Len(ast[1][k]) :
        /\ ast[1][k][j].sel.typeSelector # Nil
        /\ Len(ast[1][k][j].sel.pseudoSelectors) > 0
    /\ result.sel = Nil
    /\ result.err # Nil

\* ------------------------------------------------------------------------
\* SpecNthArgs: Parse selector strings whose pseudo-classes take An+B
\* arguments, some with tokens left after the coefficients
\* ------------------------------------------------------------------------

\* The texts of up to n pieces of P.
RECURSIVE TextsOf(_, _)
TextsOf(P, n) ==
    IF n = 0 THEN {<<>>}
    ELSE TextsOf(P, n - 1) \cup {t \o q : t \in TextsOf(P, n - 1), q \in P}

\* The largest number of pieces of a selector string of SpecNthArgs.
MaxNthPieces == 3

NthPieces ==
    {<<"a">>, <<"z", "z">>, <<" ">>, <<",">>, <<":", ":", "a">>,
     <<":", "n", "t", "h", "-", "c", "h", "i", "l", "d", "(", "3", "+", "4", "n", ")">>,
     <<":", "n", "t", "h", "-", "c", "h", "i", "l", "d", "(", "e", "v", "e", "n", " ", "o", "d", "d", ")">>,
     <<":", "n", "t", "h", "-", "c", "h", "i", "l", "d", "(", "2", "n", "+", "1", " ", ")">>,
     <<":", "n", "t", "h", "-", "l", "a", "s", "t", "-", "c", "h", "i", "l", "d", "(", "2", "n", " ", "3", ")">>,
     <<":", "n", "t", "h", "-", "o", "f", "-", "t", "y", "p", "e", "(", "n", ")">>,
     <<":", "n", "t", "h", "-", "l", "a", "s", "t", "-", "o", "f", "-", "t", "y", "p", "e", "(", "1", " ", "a", ")">>}

InitNthArgs ==
    /\ pc = "Parse"
    /\ src \in TextsOf(NthPieces, MaxNthPieces)
    /\ ParseIdle /\ SelectIdle /\ NthIdle /\ LexIdle
    /\ PeekIdle

SpecNthArgs == InitNthArgs /\ [][NextParse]_vars

\* The pseudo-class selectors among the subclass selectors of a parsed list.
PseudoClassesOf(list) ==
    {list[k][j].sel.subClasses[i].pseudoClassSelector[1] :
        <<k, j, i>> \in
            {x \in (1..Len(list)) \X (1..MaxNthPieces) \X (1..MaxNthPieces) :
                /\ x[2] <= Len(list[x[1]])
                /\ x[3] <= Len(list[x[1]][x[2]].sel.subClasses)
                /\ list[x[1]][x[2]].sel.subClasses[x[3]].pseudoClassSelector # Nil}}

NthFunctions ==
    {<<"n", "t", "h", "-", "c", "h", "i", "l", "d", "(">>, <<"n", "t", "h", "-", "l", "a", "s", "t", "-", "c", "h", "i", "l", "d", "(">>, <<"n", "t", "h", "-", "o", "f", "-", "t", "y", "p", "e", "(">>,
     <<"n", "t", "h", "-", "l", "a", "s", "t", "-", "o", "f", "-", "t", "y", "p", "e", "(">>}

\* The argument of s reads as An+B coefficients followed, after optional
\* whitespace, by one more token.
TokensLeftAfterCoefficients(s) ==
    /\ s.function \in NthFunctions
    /\ aNPlusB(s.args, 0).err = Nil
    /\ skipWhitespace(s.args, aNPlusB(s.args, 0).i) < Len(s.args)

\* Nothing before s in the list can fail to compile: s is the first subclass
\* selector of the list, every type selector before it names a known tag, and
\* no compound selector before it carries a pseudo-element.
NothingFailsBefore(list, s) ==
    /\ \A p \in PseudoClassesOf(list) : p.pos >= s.pos
    /\ ~HasUnknownTag(list)
    /\ \A k \in 1..Len(list) : \A j \in 1..Len(list[k]) :
        /\ Len(list[k][j].sel.pseudoSelectors) > 0 => list[k][j].sel.pos >= s.pos
        /\ list[k][j].combinator \in {<<>>, <<">">>, <<"+">>, <<"~">>}

CommentNode == "CommentNode"

\* The largest number of nodes of a tree of SpecEmpty.
MaxEmptyNodes == 4

\* A text node stands for any text, whitespace-only or not: no matcher of
\* the selectors tried reads html.Node.Data.
EmptyLabels == {[typ |-> TextNode, atom |-> <<>>],
                [typ |-> CommentNode, atom |-> <<>>],
                [typ |-> ElementNode, atom |-> <<"a">>],
                [typ |-> ElementNode, atom |-> <<"p">>]}

\* The trees of one node more than tree, the last node being a child of an
\* element or of the document.
ExtendWith(tree, labels) ==
    {Append(tree, Node(l.typ, l.atom, <<>>, <<>>, par)) :
        l \in labels,
        par \in {k \in AncestorsOrSelf(tree, Len(tree)) :
                    tree[k].typ \in {ElementNode, DocumentNode}}}

RECURSIVE EmptyTrees(_)
EmptyTrees(n) ==
    IF n = 1 THEN {<<Node(l.typ, l.atom, <<>>, <<>>, 0)>> : l \in RootLabels}
    ELSE EmptyTrees(n - 1) \cup UNION {ExtendWith(t, EmptyLabels) : t \in EmptyTrees(n - 1)}

InitEmpty ==
    /\ pc = "Parse"
    /\ src \in {<<":", "e", "m", "p", "t", "y">>, <<"a", ":", "e", "m", "p", "t", "y">>}
    /\ doc \in EmptyTrees(MaxEmptyNodes)
    /\ start \in 1..Len(doc)
    /\ sels = Nil /\ idx = 0 /\ selected = <<>> /\ parts = <<>>
    /\ NthIdle /\ LexIdle /\ ParseIdle
    /\ PeekIdle

SpecEmpty == InitEmpty /\ [][NextSelect]_vars

\* The nodes Select tries a compound selector on: the node it is called
\* with and the elements below it.
Scope(tree, n) ==
    {k \in 1..Len(tree) :
        k = n \/ (IsElement(tree, k) /\ n \in AncestorsOrSelf(tree, k))}

HasElementChild(tree, n) == \E k \in Children(tree, n) : IsElement(tree, k)

RECURSIVE ValidUTF8From(_, _)
ValidUTF8From(s, k) ==
    IF k > Len(s) THEN TRUE
    ELSE IF s[k] \notin NonASCIIBytes THEN ValidUTF8From(s, k + 1)
    ELSE IF s[k] \in {"xC3", "xC4"}
    THEN k + 1 <= Len(s) /\ s[k + 1] \in ContinuationBytes
         /\ ValidUTF8From(s, k + 2)
    ELSE IF s[k] = "xEF"
    THEN k + 2 <= Len(s) /\ s[k + 1] \in ContinuationBytes
         /\ s[k + 2] \in ContinuationBytes /\ ValidUTF8From(s, k + 3)
    ELSE FALSE

ValidUTF8(s) == ValidUTF8From(s, 1)

\* C13: invalid UTF-8 is rejected before tokenizing.  For an input that is
\* not valid UTF-8, wherever the invalid bytes are, the first call of
\* lexer.next returns an error and no token, which Parse reports as its error.
C13_InvalidUTF8IsRejected ==
    (~ValidUTF8(src) /\ toks # <<>>) =>
        (Len(toks) = 1 /\ toks[1].typ = tokenLexErr)

\* The tokens up to and including the first EOF token.
UpToEOF(ts) ==
    SubSeq(ts, 1, Min({k \in 1..Len(ts) : ts[k].typ = tokenEOF}))

\* The raw texts of the tokens, one after the other.
RECURSIVE RawText(_)
RawText(ts) == IF ts = <<>> THEN <<>> ELSE Head(ts).raw \o RawText(Tail(ts))

\* Each token starts where the one before it ends, the first one at 0.
Contiguous(ts) ==
    \A k \in 1..Len(ts) :
        ts[k].pos = IF k = 1 THEN 0 ELSE ts[k - 1].pos + Len(ts[k - 1].raw)

\* C14: round-trip tokenization.  When lexer.next has returned an EOF token
\* and no error before it, the tokens up to and including that EOF token are
\* contiguous from offset 0 and their raw texts, concatenated, are the input.
C14_RawTextIsTheInput ==
    (\E k \in 1..Len(toks) : toks[k].typ = tokenEOF) =>
        /\ Contiguous(UpToEOF(toks))
        /\ RawText(UpToEOF(toks)) = src

\* C15: EOF is absorbing.  Once lexer.next has returned an EOF token, every
\* later call returns an EOF token.
C15_EOFIsAbsorbing ==
    \A i, j \in 1..Len(toks) :
        (i < j /\ toks[i].typ = tokenEOF) => toks[j].typ = tokenEOF

\* ------------------------------------------------------------------------
\* SpecAttr: Parse attribute selectors with whitespace between their tokens
\* ------------------------------------------------------------------------

\* The attribute selectors tried, token by token, with what each one asks
\* for; opGap is the gap between the two characters of the operator (gap k
\* lies between token k and token k + 1), 0 when the operator is "=" or
\* missing.
AttrForms ==
    {[toks |-> <<<<"[">>, <<"a">>, <<"]">>>>, opGap |-> 0,
      matcher |-> <<>>, val |-> <<>>, modifier |-> FALSE],
     [toks |-> <<<<"[">>, <<"a">>, <<"=">>, <<"\"", "b", "\"">>, <<"]">>>>, opGap |-> 0,
      matcher |-> <<"=">>, val |-> <<"b">>, modifier |-> FALSE],
     [toks |-> <<<<"[">>, <<"a">>, <<"=">>, <<"\"", "b", "\"">>, <<"i">>, <<"]">>>>, opGap |-> 0,
      matcher |-> <<"=">>, val |-> <<"b">>, modifier |-> TRUE],
     [toks |-> <<<<"[">>, <<"a">>, <<"~">>, <<"=">>, <<"\"", "b", "\"">>, <<"]">>>>, opGap |-> 3,
      matcher |-> <<"~", "=">>, val |-> <<"b">>, modifier |-> FALSE],
     [toks |-> <<<<"[">>, <<"a">>, <<"~">>, <<"=">>, <<"\"", "b", "\"">>, <<"i">>, <<"]">>>>, opGap |-> 3,
      matcher |-> <<"~", "=">>, val |-> <<"b">>, modifier |-> TRUE]}

\* The tokens tk[k..], with a space in each gap of the set gaps.
RECURSIVE Spaced(_, _, _)
Spaced(tk, gaps, k) ==
    IF k > Len(tk) THEN <<>>
    ELSE tk[k] \o (IF k \in gaps THEN <<" ">> ELSE <<>>)
               \o Spaced(tk, gaps, k + 1)

Gaps(f) == 1..(Len(f.toks) - 1)

InitAttr ==
    /\ pc = "Parse"
    /\ \E f \in AttrForms : \E gaps \in SUBSET Gaps(f) :
        src = Spaced(f.toks, gaps, 1)
    /\ ParseIdle /\ SelectIdle /\ NthIdle /\ LexIdle
    /\ PeekIdle

SpecAttr == InitAttr /\ [][NextParse]_vars

\* Parse returned a Selector for one attribute selector that asks for what
\* the form f asks for.
ParsedAs(f) ==
    /\ result.err = Nil /\ result.sel # Nil
    /\ ast # Nil
    /\ Len(ast[1]) = 1 /\ Len(ast[1][1]) = 1
    /\ ast[1][1][1].sel.typeSelector = Nil
    /\ Len(ast[1][1][1].sel.subClasses) = 1
    /\ ast[1][1][1].sel.subClasses[1].attributeSelector # Nil
    /\ \E at \in {ast[1][1][1].sel.subClasses[1].attributeSelector[1]} :
        /\ at.wqName = [hasPrefix |-> FALSE, prefix |-> <<>>, value |-> <<"a">>]
        /\ at.matcher = f.matcher
        /\ at.val = f.val
        /\ at.modifier = f.modifier

MaxChainPieces == 4

\* Every piece but "[a]" is one character and one token.
ChainPieces ==
    {<<"a">>, <<"*">>, <<"[", "a", "]">>, <<" ">>, <<">">>, <<"+">>, <<"~">>, <<"|">>,
     <<",">>, <<")">>}

InitChain ==
    /\ pc = "Parse"
    /\ src \in TextsOf(ChainPieces, MaxChainPieces)
    /\ ParseIdle /\ SelectIdle /\ NthIdle /\ LexIdle
    /\ PeekIdle

SpecChain == InitChain /\ [][NextParse]_vars

\* s[k] ends a compound selector and s[k + 1] starts another one, with no
\* whitespace and no combinator between the two: "*" or "]" followed by a
\* name, or "]" followed by "*".
Juxtaposed(s, k) ==
    /\ k + 1 <= Len(s)
    /\ \/ s[k] = "*" /\ s[k + 1] = "a"
       \/ s[k] = "]" /\ s[k + 1] \in {"a", "*"}

\* C16: whitespace is required for a descendant combinator.  Two compound
\* selectors are chained by the descendant combinator only when whitespace
\* separates them, and an input in which a compound selector is followed at
\* once by a token that starts another compound selector ("*a", "[a]a") is
\* rejected with an error.
C16_WhitespaceRequired ==
    pc \in {"Parsed", "Probed"} =>
        ((\E k \in 1..Len(src) : Juxtaposed(src, k))
            => (result.sel = Nil /\ result.err # Nil))

\* The first index from k on at which s has no space; Len(s) + 1 if none.
RECURSIVE NextNonSpace(_, _)
NextNonSpace(s, k) ==
    IF k > Len(s) \/ s[k] # " " THEN k ELSE NextNonSpace(s, k + 1)

DoubleBar(s, k) == k + 1 <= Len(s) /\ s[k] = "|" /\ s[k + 1] = "|"

\* Nothing that starts a compound selector stands at s[k]: the end of the
\* input, a comma, a combinator or a closing parenthesis.
NoCompoundAt(s, k) ==
    \/ k > Len(s)
    \/ s[k] \in {",", ">", "+", "~", ")"}
    \/ DoubleBar(s, k)

\* A combinator at s[k] with no compound selector after it.
DanglingCombinator(s, k) ==
    \/ s[k] \in {">", "+", "~"} /\ NoCompoundAt(s, NextNonSpace(s, k + 1))
    \/ DoubleBar(s, k) /\ NoCompoundAt(s, NextNonSpace(s, k + 2))

StartsWithCombinator(s) ==
    \E k \in {NextNonSpace(s, 1)} :
        k <= Len(s) /\ (s[k] \in {">", "+", "~"} \/ DoubleBar(s, k))

\* C18: a combinator with no compound selector after it is a parse error.
\* When '>', '+', '~' or '||' is followed, after optional whitespace, by the
\* end of the input, a comma, another combinator or another token that
\* cannot start a compound selector, and when the input begins with a
\* combinator, Parse returns an error.
C18_DanglingCombinatorIsAnError ==
    (/\ pc \in {"Parsed", "Probed"}
     /\ \/ \E k \in 1..Len(src) : DanglingCombinator(src, k)
        \/ StartsWithCombinator(src))
        => (result.sel = Nil /\ result.err # Nil)

\* "a ||>" : a column combinator followed by another combinator.
C18_Witness ==
    /\ pc = "Parsed"
    /\ src = <<"a", "|", "|", ">">>
    /\ DanglingCombinator(src, 2)
    /\ result.sel = Nil /\ result.err # Nil

\* ------------------------------------------------------------------------
\* SpecAny: Parse a functional pseudo-class with brackets in its argument
\* ------------------------------------------------------------------------

\* The largest number of pieces after the opening ":nth-child(".
MaxAnyPieces == 4

AnyPieces == {<<"2">>, <<"a", "(">>, <<"(">>, <<")">>, <<"[">>, <<"]">>, <<" ">>}

AnyPrefix == <<":", "n", "t", "h", "-", "c", "h", "i", "l", "d", "(">>

InitAny ==
    /\ pc = "Parse"
    /\ src \in {AnyPrefix \o t : t \in TextsOf(AnyPieces, MaxAnyPieces)}
    /\ ParseIdle /\ SelectIdle /\ NthIdle /\ LexIdle
    /\ PeekIdle

SpecAny == InitAny /\ [][NextParse]_vars

\* The index of the bracket that closes the last bracket of open, a sequence
\* of the closing brackets still due, scanning s from k on; 0 when a bracket
\* closes another kind of bracket or the input ends first.
RECURSIVE ClosingIndex(_, _, _)
ClosingIndex(s, k, open) ==
    IF k > Len(s) THEN 0
    ELSE IF s[k] = "(" THEN ClosingIndex(s, k + 1, <<")">> \o open)
    ELSE IF s[k] = "[" THEN ClosingIndex(s, k + 1, <<"]">> \o open)
    ELSE IF s[k] \in {")", "]"} THEN
        IF s[k] # Head(open) THEN 0
        ELSE IF Tail(open) = <<>> THEN k
        ELSE ClosingIndex(s, k + 1, Tail(open))
    ELSE ClosingIndex(s, k + 1, open)

\* The index in src of the ')' that matches the '(' of AnyPrefix.
MatchingParen == ClosingIndex(src, Len(AnyPrefix) + 1, <<")">>)

\* C19: the argument of a functional pseudo-class ends at the ')' that
\* matches the function's own '('.  When the brackets of the argument are
\* balanced, nested function calls included, and the input ends with that
\* ')', the parser collects every token before it verbatim; when a bracket
\* is unmatched or mismatched or the input ends first, the parser fails.
C19_ArgumentsEndAtMatchingParen ==
    pc \in {"Parsed", "Probed"} =>
        /\ MatchingParen = Len(src) =>
            /\ ast # Nil
            /\ Len(ast[1]) = 1 /\ Len(ast[1][1]) = 1
            /\ Len(ast[1][1][1].sel.subClasses) = 1
            /\ ast[1][1][1].sel.subClasses[1].pseudoClassSelector # Nil
            /\ RawText(ast[1][1][1].sel.subClasses[1].pseudoClassSelector[1].args)
                  = SubSeq(src, Len(AnyPrefix) + 1, Len(src) - 1)
        /\ MatchingParen = 0 => (ast = Nil /\ result.err # Nil)

\* The strings of one or two of the hex digits among the input bytes.
HexStrings ==
    {<<h>> : h \in {"a", "1"}} \cup {<<h, g>> : h \in {"a", "1"}, g \in {"a", "1"}}

\* C20: hex escapes decode to the corresponding code point.  A name that is
\* a backslash, k hex digits and at most one whitespace character is an
\* ident token whose value is the one code point with that hexadecimal value.
C20_HexEscapeDecodes ==
    \A ds \in HexStrings : \A ws \in {<<>>, <<" ">>} :
        (src = <<"\\">> \o ds \o ws /\ toks # <<>>) =>
            /\ toks[1].typ = tokenIdent
            /\ toks[1].raw = src
            /\ toks[1].s = WriteRune(RuneOf(ParseUint16(ds, 0)))

\* ------------------------------------------------------------------------
\* SpecString: lexer.next on inputs that open a string
\* ------------------------------------------------------------------------

\* The largest number of bytes after the opening quote.
MaxStringBody == 4

\* The bytes after the opening quote.
StringBytes == {"a", "1", "\\", "\n", "\""}

RECURSIVE StringBodies(_)
StringBodies(n) ==
    IF n = 0 THEN {<<>>}
    ELSE {Append(s, c) : s \in StringBodies(n - 1), c \in StringBytes}

InitString ==
    /\ pc = "next"
    /\ src \in {<<"\"">> \o body :
                  body \in UNION {StringBodies(n) : n \in 0..MaxStringBody}}
    /\ lx = newLexer(src)
    /\ toks = <<>>
    /\ SelectIdle /\ NthIdle /\ ParseIdle
    /\ PeekIdle

SpecString == InitString /\ [][NextLex]_vars

\* The inputs that open a string, go on with k plain characters and then
\* have a backslash immediately followed by a newline.
BackslashNewlineAt(k) ==
    /\ Len(src) >= k + 3
    /\ src[1] = "\""
    /\ \A j \in 2..(k + 1) : src[j] = "a"
    /\ src[k + 2] = "\\"
    /\ src[k + 3] = "\n"

\* C21 as stated: a backslash immediately followed by a newline inside a
\* string is a line continuation.  When the string is closed after plain
\* characters, the first token is the string token of the whole input, and
\* its value has the plain characters only.
C21_Original ==
    \A k \in 0..MaxStringBody :
        (/\ BackslashNewlineAt(k)
         /\ src[Len(src)] = "\"" /\ Len(src) >= k + 4
         /\ \A j \in (k + 4)..(Len(src) - 1) : src[j] = "a"
         /\ toks # <<>>) =>
            /\ toks[1].typ = tokenString
            /\ toks[1].raw = src
            /\ toks[1].s = [j \in 1..(Len(src) - 4) |-> "a"]

\* C21 (amended): a backslash immediately followed by a newline inside a
\* string is an error.  The call of next() that lexes the string returns the
\* error "unexpected newline after '\' parsing string" and no token,
\* whatever follows the newline.
C21_BackslashNewlineIsAnError ==
    \A k \in 0..MaxStringBody :
        (BackslashNewlineAt(k) /\ toks # <<>>) =>
            /\ Len(toks) = 1
            /\ toks[1].typ = tokenLexErr
            /\ toks[1].s = "unexpected newline after '\\' parsing string"
            /\ pc = "error"

C21_Witness ==
    /\ src = <<"\"", "a", "\\", "\n", "\"">>
    /\ toks # <<>>
    /\ toks[1].typ = tokenLexErr

\* ------------------------------------------------------------------------
\* SpecAdjacent: Select with "A + B" on an element and its children
\* ------------------------------------------------------------------------

\* The largest number of children of the root element.
MaxAdjacentSiblings == 4

RECURSIVE SiblingLists(_)
SiblingLists(n) ==
    IF n = 0 THEN {<<>>}
    ELSE {Append(s, Node(l.typ, l.atom, <<>>, <<>>, 1)) :
            s \in SiblingLists(n - 1), l \in InnerLabels}

InitAdjacent ==
    /\ pc = "Parse"
    /\ src \in {a \o <<"+">> \o c : a \in Compounds, c \in Compounds}
    /\ doc \in {<<Node(ElementNode, <<"p">>, <<>>, <<>>, 0)>> \o s :
                  s \in UNION {SiblingLists(n) : n \in 0..MaxAdjacentSiblings}}
    /\ start = 1
    /\ sels = Nil /\ idx = 0 /\ selected = <<>> /\ parts = <<>>
    /\ NthIdle /\ LexIdle /\ ParseIdle
    /\ PeekIdle

SpecAdjacent == InitAdjacent /\ [][NextSelect]_vars

\* The element siblings of node n before it and after it.
ElementSiblingsBefore(tree, n) ==
    {k \in 1..(n - 1) : tree[n].parent # 0 /\ tree[k].parent = tree[n].parent
                        /\ tree[k].typ = ElementNode}

ElementSiblingsAfter(tree, n) ==
    {k \in (n + 1)..Len(tree) : tree[n].parent # 0 /\ tree[k].parent = tree[n].parent
                                /\ tree[k].typ = ElementNode}

\* What "A + B" yields for one node n matching A: the nearest preceding
\* element sibling if its tag is B, then the nearest following one if its
\* tag is B.
AdjacentOf(tree, n, tagB) ==
    (IF ElementSiblingsBefore(tree, n) # {}
        /\ tree[Max(ElementSiblingsBefore(tree, n))].atom = tagB
     THEN <<Max(ElementSiblingsBefore(tree, n))>> ELSE <<>>)
    \o (IF ElementSiblingsAfter(tree, n) # {}
           /\ tree[Min(ElementSiblingsAfter(tree, n))].atom = tagB
        THEN <<Min(ElementSiblingsAfter(tree, n))>> ELSE <<>>)

\* The same for the nodes n, n + 1, ... of the tree that match A, in order.
RECURSIVE AdjacentFrom(_, _, _, _)
AdjacentFrom(tree, n, tagA, tagB) ==
    IF n > Len(tree) THEN <<>>
    ELSE (IF tree[n].typ = ElementNode /\ tree[n].atom = tagA
          THEN AdjacentOf(tree, n, tagB) ELSE <<>>)
         \o AdjacentFrom(tree, n + 1, tagA, tagB)

\* C22: the adjacent-sibling combinator looks in both directions.  For
\* "A + B" Select returns, for each node matching A in turn, its nearest
\* preceding element sibling if that matches B and then its nearest following
\* element sibling if that matches B, and no other node.
C22_AdjacentLooksBothWays ==
    (pc = "Selected" /\ Len(src) = 3 /\ src[2] = "+") =>
        selected = AdjacentFrom(doc, 1, <<src[1]>>, <<src[3]>>)

\* "p + a" on <p><a/>text<p/><a/></p>: the inner p yields the a before it,
\* across the text node, and the a after it.
C22_Witness ==
    /\ pc = "Selected"
    /\ src = <<"p", "+", "a">>
    /\ Len(doc) = 5
    /\ doc[2].atom = <<"a">> /\ doc[3].typ = TextNode
    /\ doc[4].atom = <<"p">> /\ doc[5].atom = <<"a">>
    /\ selected = <<2, 5>>

\* ------------------------------------------------------------------------
\* SpecOfType: Select with ":first-of-type" and ":last-of-type" on the
\* children of an element, custom elements among them
\* ------------------------------------------------------------------------

\* The largest number of children of the root element.
MaxTypeSiblings == 3

\* The tag names of the children: two known to the atom table, two custom.
TypeTags == {<<"a">>, <<"p">>, <<"x", "-", "a">>, <<"x", "-", "b">>}

\* The element node the HTML parser builds for a tag name: Data is the name
\* and DataAtom is atom.Lookup(name), 0 for a name outside the table.
ElementNamed(name, parent) ==
    [typ |-> ElementNode, atom |-> Lookup(name), ns |-> <<>>, attr |-> <<>>,
     parent |-> parent, data |-> name]

TextNamed(parent) ==
    [typ |-> TextNode, atom |-> <<>>, ns |-> <<>>, attr |-> <<>>,
     parent |-> parent, data |-> <<>>]

RECURSIVE TypedSiblings(_)
TypedSiblings(n) ==
    IF n = 0 THEN {<<>>}
    ELSE {Append(s, c) : s \in TypedSiblings(n - 1),
                         c \in {ElementNamed(t, 1) : t \in TypeTags} \cup {TextNamed(1)}}

InitOfType ==
    /\ pc = "Parse"
    /\ src \in {<<":", "f", "i", "r", "s", "t", "-", "o", "f", "-", "t", "y", "p", "e">>,
                <<":", "l", "a", "s", "t", "-", "o", "f", "-", "t", "y", "p", "e">>}
    /\ doc \in {<<ElementNamed(<<"p">>, 0)>> \o s :
                  s \in UNION {TypedSiblings(n) : n \in 0..MaxTypeSiblings}}
    /\ start = 1
    /\ sels = Nil /\ idx = 0 /\ selected = <<>> /\ parts = <<>>
    /\ NthIdle /\ LexIdle /\ ParseIdle
    /\ PeekIdle

SpecOfType == InitOfType /\ [][NextSelect]_vars

\* The element siblings of n in the set K that have n's tag name.
SameTagSiblings(tree, n, K) ==
    {k \in K : /\ k # n
               /\ tree[n].parent # 0 /\ tree[k].parent = tree[n].parent
               /\ tree[k].typ = ElementNode
               /\ tree[k].data = tree[n].data}

\* C23: ":first-of-type" matches an element if and only if no preceding
\* element sibling has the same tag name, and ":last-of-type" likewise for
\* the following siblings, custom elements included.
C23_OfTypeComparesTagNames ==
    pc = "Selected" =>
        \A n \in 1..Len(doc) :
            doc[n].typ = ElementNode =>
                ((n \in Range(selected)) <=>
                    IF src[2] = "f"
                    THEN SameTagSiblings(doc, n, 1..(n - 1)) = {}
                    ELSE SameTagSiblings(doc, n, (n + 1)..Len(doc)) = {})

\* The same restricted to trees without custom elements.
C23_KnownTagsOnly ==
    (\A n \in 1..Len(doc) : doc[n].typ = ElementNode => doc[n].atom # <<>>)
        => C23_OfTypeComparesTagNames

\* ------------------------------------------------------------------------
\* SpecANB: p := newParser(src); p.aNPlusB(); p.expectWhitespaceOrEOF()
\* ------------------------------------------------------------------------

\* The largest number of pieces after the n-term.
MaxBPieces == 4

\* What the n-term starts with, the coefficients, and the pieces after it.
ANBSigns == {<<>>, <<"+">>, <<"-">>, <<"+", " ">>}

ANBCoefficients == {<<>>, <<"1">>, <<"4">>}

BPieces == {<<"+">>, <<"-">>, <<" ">>, <<"3">>}

InitANB ==
    /\ pc = "aNPlusB"
    /\ src \in {s \o c \o <<"n">> \o x :
                  s \in ANBSigns, c \in ANBCoefficients,
                  x \in TextsOf(BPieces, MaxBPieces)}
    /\ SelectIdle /\ NthIdle /\ LexIdle /\ ParseIdle
    /\ PeekIdle

\* a, err := p.aNPlusB(): the tokens come from the lexer on src, the nth is
\* kept in nthA and nthB and the parser's position in idx.
ANPlusBCall ==
    /\ pc = "aNPlusB"
    /\ \E ts \in {Lex(src)} : \E r \in {aNPlusB(ts, 0)} :
        /\ toks' = ts
        /\ idx' = r.i
        /\ nthA' = IF r.err = Nil THEN r.val[1].a ELSE 0
        /\ nthB' = IF r.err = Nil THEN r.val[1].b ELSE 0
        /\ pc' = IF r.err = Nil THEN "expect" ELSE "failed"
    /\ UNCHANGED <<src, doc, start, sels, selected, parts, nthVal, nthRes, lx,
                   ast, result, probe, matched,
                   pq, perr, ret, pushes, popped>>

\* err := p.expectWhitespaceOrEOF()
ExpectCall ==
    /\ pc = "expect"
    /\ pc' = IF expectWhitespaceOrEOF(toks, idx) = Nil THEN "accepted" ELSE "trailing"
    /\ UNCHANGED <<src, doc, start, sels, idx, selected, parts, nthA, nthB,
                   nthVal, nthRes, lx, toks, ast, result, probe, matched,
                   pq, perr, ret, pushes, popped>>

NextANB == ANPlusBCall \/ ExpectCall

SpecANB == InitANB /\ [][NextANB]_vars

\* The input has been parsed to the end, with or without an error.
ANBDone == pc \in {"failed", "accepted", "trailing"}

\* C24: a leading '+' must be immediately followed by the n-term.  Every
\* input with whitespace between a leading '+' and the rest is a syntax
\* error, while "+4n", "+n" and "+n- 3" are accepted.
C24_PlusThenWhitespaceIsAnError ==
    ANBDone =>
        /\ HasPrefix(src, <<"+", " ">>) => pc # "accepted"
        /\ src = <<"+", "4", "n">> => (pc = "accepted" /\ nthA = 4 /\ nthB = 0)
        /\ src = <<"+", "n">> => (pc = "accepted" /\ nthA = 1 /\ nthB = 0)
        /\ src = <<"+", "n", "-", " ", "3">>
              => (pc = "accepted" /\ nthA = 1 /\ nthB = 0 - 3)

\* The part of C24 about inputs without the whitespace.
C24_WithoutWhitespace ==
    ANBDone =>
        /\ src = <<"+", "4", "n">> => (pc = "accepted" /\ nthA = 4 /\ nthB = 0)
        /\ src = <<"+", "n">> => (pc = "accepted" /\ nthA = 1 /\ nthB = 0)
        /\ src = <<"+", "n", "-", " ", "3">>
              => (pc = "accepted" /\ nthA = 1 /\ nthB = 0 - 3)
        /\ (HasPrefix(src, <<"+", " ">>) /\ src[3] # "n") => pc # "accepted"

\* The n-term of src has no coefficient: src is sign \o "n" \o x.
OmittedCoefficient(sign) == HasPrefix(src, sign \o <<"n">>)

\* The text of src with the coefficient 1 written out after the sign.
WithCoefficientOne(sign) ==
    sign \o <<"1">> \o SubSeq(src, Len(sign) + 1, Len(src))

\* C28: an omitted coefficient is equivalent to coefficient 1.  Whenever
\* parser.aNPlusB succeeds on "1nX", "+1nX" or "-1nX", it succeeds on "nX",
\* "+nX" or "-nX" with the same a and b and at the same rest of the input.
C28_OmittedCoefficientIsOne ==
    pc \in {"expect", "failed"} =>
        \A sign \in {<<>>, <<"+">>, <<"-">>} :
            (/\ OmittedCoefficient(sign)
             /\ aNPlusB(Lex(WithCoefficientOne(sign)), 0).err = Nil) =>
                /\ pc = "expect"
                /\ nthA = aNPlusB(Lex(WithCoefficientOne(sign)), 0).val[1].a
                /\ nthB = aNPlusB(Lex(WithCoefficientOne(sign)), 0).val[1].b

\* The same without the inputs whose n-term runs into "-" and digits.
C28_ExceptDashDigits ==
    (~(\E sign \in {<<>>, <<"+">>} :
          HasPrefix(src, sign \o <<"n", "-", "3">>)))
        => C28_OmittedCoefficientIsOne

\* ------------------------------------------------------------------------
\* Properties of the compiler's error list (SpecParse)
\* ------------------------------------------------------------------------

\* C25: compilation aborts once the error threshold is hit.  During a run of
\* the compiler under Parse the number of recorded errors never exceeds
\* maxErrs.
C25_ErrorsNeverExceedMaxErrs ==
    Len(result.errs) <= maxErrs

\* ------------------------------------------------------------------------
\* SpecKinds: Select from a node of any kind, with selectors that do not
\* name a tag
\* ------------------------------------------------------------------------

\* The largest number of nodes of a tree of SpecKinds.
MaxKindNodes == 3

KindSelectors ==
    {<<"*">>, <<"a">>, <<":", "r", "o", "o", "t">>,
     <<":", "e", "m", "p", "t", "y">>,
     <<":", "f", "i", "r", "s", "t", "-", "c", "h", "i", "l", "d">>}

InitKinds ==
    /\ pc = "Parse"
    /\ src \in KindSelectors
    /\ doc \in EmptyTrees(MaxKindNodes)
    /\ start \in 1..Len(doc)
    /\ sels = Nil /\ idx = 0 /\ selected = <<>> /\ parts = <<>>
    /\ NthIdle /\ LexIdle /\ ParseIdle
    /\ PeekIdle

SpecKinds == InitKinds /\ [][NextSelect]_vars

\* C26: Select produces only elements.  Whatever node Select starts from,
\* the document node included, every node of the result is an element node.
C26_SelectYieldsElementsOnly ==
    \A k \in 1..Len(selected) : doc[selected[k]].typ = ElementNode

\* The same for the calls of Select that start from an element.
C26_FromAnElement ==
    doc[start].typ = ElementNode => C26_SelectYieldsElementsOnly

\* ------------------------------------------------------------------------
\* Select and the subtree it is given (SpecSelect)
\* ------------------------------------------------------------------------

\* C27: Select is confined to the subtree it is given.  Every node returned
\* by Select(r) is r itself or a descendant of r, also when r has a parent
\* and siblings in a larger document.
C27_SelectStaysInSubtree ==
    \A k \in 1..Len(selected) : start \in AncestorsOrSelf(doc, selected[k])

\* The same for the selectors without "+" and "~".
C27_WithoutSiblingCombinators ==
    (\A k \in 1..Len(src) : src[k] \notin {"+", "~"}) => C27_SelectStaysInSubtree

\* ------------------------------------------------------------------------
\* The peek queue (src/queue.go)
\* ------------------------------------------------------------------------

\* token{}: the zero value, whose type is none of the token types.
zeroToken == Token("tokenType(0)", <<>>, <<>>, 0, tokenFlagNone, <<>>)

\* queue{vals, start, n}; vals[k + 1] is q.vals[k].
newQueue(size) == [vals |-> [k \in 1..size |-> zeroToken], start |-> 0, n |-> 0]

\* q.index(n)
queue_index(q, n) == (q.start + n) % Len(q.vals)

\* q.len()
queue_len(q) == q.n

\* q.get(n): the token, or the panic
queue_get(q, n) ==
    IF n >= q.n THEN [panic |-> TRUE, t |-> zeroToken]
    ELSE [panic |-> FALSE, t |-> q.vals[queue_index(q, n) + 1]]

\* q.push(t): the queue after it, or the panic
queue_push(q, t) ==
    IF q.n = Len(q.vals) THEN [panic |-> TRUE, q |-> q]
    ELSE [panic |-> FALSE,
          q |-> [q EXCEPT !.vals[queue_index(q, q.n) + 1] = t, !.n = q.n + 1]]

\* q.pop() as it would be if it left q.start alone.
queue_popKeepStart(q) ==
    IF q.n = 0 THEN [panic |-> TRUE, q |-> q, t |-> zeroToken]
    ELSE [panic |-> FALSE, t |-> q.vals[q.start + 1],
          q |-> [q EXCEPT !.n = q.n - 1]]

\* q.pop(): the token and the queue after it, or the panic
queue_pop(q) ==
    IF q.n = 0 THEN [panic |-> TRUE, q |-> q, t |-> zeroToken]
    ELSE [panic |-> FALSE, t |-> q.vals[q.start + 1],
          q |-> [q EXCEPT !.start = queue_index(q, 1), !.n = q.n - 1]]

\* ------------------------------------------------------------------------
\* SpecQueue: push, pop, get and len on a queue of some capacity
\* ------------------------------------------------------------------------

\* The largest capacity of a queue and the largest number of push and pop
\* calls on it.
MaxCapacity == 3

MaxQueueCalls == 7

\* The tokens pushed: t1 and t2 of TestQueue.
QueueTokens ==
    {Token(tokenDelim, <<"*">>, <<"*">>, 0, tokenFlagNone, <<>>),
     Token(tokenIdent, <<"a">>, <<"a">>, 0, tokenFlagNone, <<>>)}

\* What a call returned: ret is <<>> before the first call.
Returned(op, arg, t) == <<[op |-> op, arg |-> arg, t |-> t]>>

InitQueue ==
    /\ pc = "queue"
    /\ pq \in {newQueue(c) : c \in 1..MaxCapacity}
    /\ perr = Nil /\ ret = Nil /\ pushes = <<>> /\ popped = 0
    /\ src = <<>>
    /\ SelectIdle /\ NthIdle /\ LexIdle /\ ParseIdle

\* q.push(t)
QueuePush ==
    /\ pc = "queue"
    /\ Len(pushes) + popped < MaxQueueCalls
    /\ \E t \in QueueTokens : \E r \in {queue_push(pq, t)} :
        /\ pq' = r.q
        /\ ret' = Returned("push", 0, t)
        /\ pushes' = IF r.panic THEN pushes ELSE Append(pushes, t)
        /\ pc' = IF r.panic THEN "panic" ELSE "queue"
    /\ UNCHANGED <<src, doc, start, sels, idx, selected, parts, nthA, nthB,
                   nthVal, nthRes, lx, toks, ast, result, probe, matched,
                   perr, popped>>

\* t := q.pop()
QueuePop ==
    /\ pc = "queue"
    /\ Len(pushes) + popped < MaxQueueCalls
    /\ \E r \in {queue_pop(pq)} :
        /\ pq' = r.q
        /\ ret' = Returned("pop", 0, r.t)
        /\ popped' = IF r.panic THEN popped ELSE popped + 1
        /\ pc' = IF r.panic THEN "panic" ELSE "queue"
    /\ UNCHANGED <<src, doc, start, sels, idx, selected, parts, nthA, nthB,
                   nthVal, nthRes, lx, toks, ast, result, probe, matched,
                   perr, pushes>>

\* t := q.get(n)
QueueGet ==
    /\ pc = "queue"
    /\ \E n \in 0..(Len(pq.vals) - 1) : \E r \in {queue_get(pq, n)} :
        /\ ret' = Returned("get", n, r.t)
        /\ pc' = IF r.panic THEN "panic" ELSE "queue"
    /\ UNCHANGED <<src, doc, start, sels, idx, selected, parts, nthA, nthB,
                   nthVal, nthRes, lx, toks, ast, result, probe, matched,
                   pq, perr, pushes, popped>>

NextQueue == QueuePush \/ QueuePop \/ QueueGet

SpecQueue == InitQueue /\ [][NextQueue]_vars

\* C30: the peek queue is a bounded FIFO.  While no call has pushed onto a
\* full queue or popped an empty one, len() is the number of pushes minus
\* the number of pops, get(i) is the i-th oldest token not yet popped, and
\* pop() returned the oldest one.
C30_QueueIsFIFO ==
    pc = "queue" =>
        /\ queue_len(pq) = Len(pushes) - popped
        /\ \A i \in 0..(queue_len(pq) - 1) :
              /\ ~queue_get(pq, i).panic
              /\ queue_get(pq, i).t = pushes[popped + i + 1]
        /\ (ret # Nil /\ ret[1].op = "pop") => ret[1].t = pushes[popped]
        /\ (ret # Nil /\ ret[1].op = "get") => ret[1].t = pushes[popped + ret[1].arg + 1]

\* A pop returned its token when the start index wrapped around to 0, the
\* token still held having been written at an index that wrapped too.
C30_Witness ==
    /\ pc = "queue"
    /\ ret # Nil /\ ret[1].op = "pop"
    /\ Len(pq.vals) = 2
    /\ popped = Len(pq.vals)
    /\ pq.start = 0
    /\ queue_len(pq) = 1
    /\ ret[1].t # queue_get(pq, 0).t

\* ------------------------------------------------------------------------
\* parser.next, parser.peek and parser.peekN (src/parse.go)
\* ------------------------------------------------------------------------

\* newParser: peekQueue: newQueue(2)
peekQueueSize == 2

\* What a call on the parser returns and leaves behind: the lexer, the peek
\* queue and parser.err after it, the token and error returned, and the
\* results of the calls of p.l.next() it made.
Stream(l, q, err, t, e, calls) ==
    [l |-> l, q |-> q, err |-> err, t |-> t, e |-> e, calls |-> calls,
     panic |-> FALSE]

\* The loop of parser.peekN: for n >= p.peekQueue.len() { ... }
RECURSIVE peekNLoop(_, _, _, _)
peekNLoop(l, q, n, calls) ==
    IF n < queue_len(q)
    THEN Stream(l, q, Nil, queue_get(q, n).t, Nil, calls)
    ELSE Bind(lexer_next(l), LAMBDA res :
         IF IsErrTok(res.tok)
         THEN Stream(res.l, q, Some(StreamErr(res.tok)), zeroToken,
                     Some(StreamErr(res.tok)), Append(calls, res.tok))
         ELSE IF queue_push(q, res.tok).panic
         THEN [Stream(res.l, q, Nil, zeroToken, Nil, Append(calls, res.tok))
                  EXCEPT !.panic = TRUE]
         ELSE peekNLoop(res.l, queue_push(q, res.tok).q, n, Append(calls, res.tok)))

\* p.peekN(n)
parser_peekN(l, q, err, n) ==
    IF err # Nil THEN Stream(l, q, err, zeroToken, err, <<>>)
    ELSE peekNLoop(l, q, n, <<>>)

\* p.peek()
parser_peek(l, q, err) == parser_peekN(l, q, err, 0)

\* p.next() as it would be without its first test of p.err.
parser_nextUnchecked(l, q, err) ==
    IF queue_len(q) > 0
    THEN Stream(l, queue_pop(q).q, err, queue_pop(q).t, Nil, <<>>)
    ELSE Bind(lexer_next(l), LAMBDA res :
         IF IsErrTok(res.tok)
         THEN Stream(res.l, q, Some(StreamErr(res.tok)), zeroToken,
                     Some(StreamErr(res.tok)), <<res.tok>>)
         ELSE Stream(res.l, q, err, res.tok, Nil, <<res.tok>>))

\* p.next()
parser_next(l, q, err) ==
    IF err # Nil THEN Stream(l, q, err, zeroToken, err, <<>>)
    ELSE IF queue_len(q) > 0
    THEN Stream(l, queue_pop(q).q, err, queue_pop(q).t, Nil, <<>>)
    ELSE Bind(lexer_next(l), LAMBDA res :
         IF IsErrTok(res.tok)
         THEN Stream(res.l, q, Some(StreamErr(res.tok)), zeroToken,
                     Some(StreamErr(res.tok)), <<res.tok>>)
         ELSE Stream(res.l, q, err, res.tok, Nil, <<res.tok>>))

\* ------------------------------------------------------------------------
\* SpecStream: calls of next, peek and peekN on p := newParser(src)
\* ------------------------------------------------------------------------

\* The bytes of the inputs: an unclosed string is a lexer error.
StreamBytes == {"a", ",", " ", "\""}

RECURSIVE StreamTexts(_)
StreamTexts(n) ==
    IF n = 0 THEN {<<>>}
    ELSE StreamTexts(n - 1) \cup {Append(s, c) : s \in StreamTexts(n - 1), c \in StreamBytes}

\* What a call on the parser returned.
Answer(op, arg, r) == <<[op |-> op, arg |-> arg, t |-> r.t, err |-> r.e]>>

InitStream ==
    /\ pc = "parser"
    /\ src \in StreamTexts(MaxInput)
    /\ lx = newLexer(src)
    /\ toks = <<>>
    /\ pq = newQueue(peekQueueSize)
    /\ perr = Nil /\ ret = Nil /\ pushes = <<>> /\ popped = 0
    /\ SelectIdle /\ NthIdle /\ ParseIdle

\* The state of the parser after a call that returned r.
AfterCall(r) ==
    /\ lx' = r.l
    /\ pq' = r.q
    /\ perr' = r.err
    /\ toks' = toks \o r.calls
    /\ pc' = IF r.panic THEN "panic" ELSE "parser"

\* t, err := p.next()
StreamNext ==
    /\ pc = "parser"
    /\ CallsAfterEOF(toks) < MaxCallsAfterEOF
    /\ \E r \in {parser_next(lx, pq, perr)} :
        AfterCall(r) /\ ret' = Answer("next", 0, r)
    /\ UNCHANGED <<src, doc, start, sels, idx, selected, parts, nthA, nthB,
                   nthVal, nthRes, ast, result, probe, matched, pushes, popped>>

\* t, err := p.peek()
StreamPeek ==
    /\ pc = "parser"
    /\ CallsAfterEOF(toks) < MaxCallsAfterEOF
    /\ \E r \in {parser_peek(lx, pq, perr)} :
        AfterCall(r) /\ ret' = Answer("peek", 0, r)
    /\ UNCHANGED <<src, doc, start, sels, idx, selected, parts, nthA, nthB,
                   nthVal, nthRes, ast, result, probe, matched, pushes, popped>>

\* t, err := p.peekN(n), for the n the queue has room for
StreamPeekN ==
    /\ pc = "parser"
    /\ CallsAfterEOF(toks) < MaxCallsAfterEOF
    /\ \E n \in 0..(peekQueueSize - 1) : \E r \in {parser_peekN(lx, pq, perr, n)} :
        AfterCall(r) /\ ret' = Answer("peekN", n, r)
    /\ UNCHANGED <<src, doc, start, sels, idx, selected, parts, nthA, nthB,
                   nthVal, nthRes, ast, result, probe, matched, pushes, popped>>

NextStream == StreamNext \/ StreamPeek \/ StreamPeekN

SpecStream == InitStream /\ [][NextStream]_vars

\* C29: lexer errors are sticky in the parser.  Once the lexer has returned
\* an error, the call that met it and every later call of next, peek and
\* peekN return that error, also when tokens are waiting in the peek queue,
\* and the lexer is not called again: the error is the last result it gave.
C29_LexerErrorIsSticky ==
    perr # Nil =>
        /\ ret # Nil /\ ret[1].err = perr
        /\ toks # <<>>
        /\ IsErrTok(toks[Len(toks)]) /\ perr = Some(StreamErr(toks[Len(toks)]))
        /\ \A k \in 1..(Len(toks) - 1) : ~IsErrTok(toks[k])

\* next() is called after a peekN met the error with a token already queued:
\* it returns the error, and the token stays in the queue.
C29_Witness ==
    /\ perr # Nil
    /\ queue_len(pq) > 0
    /\ ret # Nil /\ ret[1].op = "next" /\ ret[1].err = perr

=============================================================================
